---- MODULE Spec2Model ----
(***************************************************************************)
(* Jeeves4Service: the JWT token codec (JwtTokenProcessor), the claims     *)
(* model (TokenPayload), the request context (RequestContext) and the      *)
(* gated routes of the household and property services.                    *)
(*                                                                         *)
(* Time is counted in ticks, TicksPerSecond ticks to the second, so that   *)
(* the truncation of exp to whole seconds done by jwt.encode is visible.   *)
(* Optional[X] is a set with at most one element: None is {} and a present *)
(* value v is {v}.  A Python dict is a function whose domain is its keys.  *)
(***************************************************************************)
EXTENDS Integers, Sequences, FiniteSets, TLC

VARIABLES now, token, origin, result, req, auth_context, household, unit,
          property_association, client, search, users, invite_call,
          association_rows, assoc_call, rooms, room_req,
          storages, location_paths, storage_call, user_call, password_set

vars == <<now, token, origin, result, req, auth_context, household, unit,
          property_association, client, search, users, invite_call,
          association_rows, assoc_call, rooms, room_req,
          storages, location_paths, storage_call, user_call, password_set>>
baseVars == <<now, token, origin, result, req, auth_context, household, unit,
              property_association, client, search>>
storeVars == <<users, invite_call, association_rows, assoc_call, rooms, room_req,
               storages, location_paths, storage_call, user_call, password_set>>
storageVars == <<storages, location_paths, storage_call>>
roomVars == <<rooms, room_req>>
userVars == <<users, invite_call, user_call, password_set>>
assocVars == <<association_rows, assoc_call>>
loginVars == <<property_association, client, search>>
codecVars == <<token, origin, result>>
requestVars == <<req, auth_context, household>>
unitVars == <<unit>>

\* ---------------------------------------------------------------- bounds
TicksPerSecond == 2
MaxTime == 3
MaxItems == 1
MaxInvites == 2
MaxUserIds == 2
MaxRooms == 3
MaxStorages == 3

\* ------------------------------------------------------ optional and dict
None == {}
Some(v) == {v}
ValueOf(o) == CHOOSE v \in o : TRUE

EmptyDict == [k \in {} |-> 0]
DictSet(d, k, v) == [x \in (DOMAIN d) \cup {k} |-> IF x = k THEN v ELSE d[x]]

\* ------------------------------------------------------------ claims model
PropertyClaimDto(pid, name, level) ==
    [property_id |-> pid, property_name |-> name, access_level |-> level]

\* pydantic: TokenPayload(**payload).  user_id is required; the other fields
\* take their declared defaults; keys that are not fields (iss, aud, exp)
\* are ignored.  ok = FALSE is the ValidationError.
TokenPayload(payload) ==
    IF "user_id" \notin DOMAIN payload
    THEN [ok |-> FALSE, value |-> EmptyDict]
    ELSE [ok |-> TRUE,
          value |-> [user_id    |-> payload["user_id"],
                     username   |-> IF "username" \in DOMAIN payload
                                    THEN Some(payload["username"]) ELSE None,
                     trace_id   |-> IF "trace_id" \in DOMAIN payload
                                    THEN Some(payload["trace_id"]) ELSE None,
                     is_admin   |-> IF "is_admin" \in DOMAIN payload
                                    THEN Some(payload["is_admin"]) ELSE Some(FALSE),
                     properties |-> IF "properties" \in DOMAIN payload
                                    THEN Some(payload["properties"]) ELSE None]]

\* the fields declared Optional
OptionalFields == {"username", "trace_id", "is_admin", "properties"}

\* a to_dict that keeps the fields whose value is truthy
to_dict_truthy(tp) ==
    [k \in {"user_id"} \cup {f \in OptionalFields :
                                /\ tp[f] # None
                                /\ f = "is_admin" => ValueOf(tp[f])
                                /\ f = "properties" => Len(ValueOf(tp[f])) > 0} |->
        IF k = "user_id" THEN tp.user_id ELSE ValueOf(tp[k])]

\* TokenPayload.to_dict: the fields whose value is not None
to_dict(tp) ==
    [k \in {"user_id"} \cup {f \in OptionalFields : tp[f] # None} |->
        IF k = "user_id" THEN tp.user_id ELSE ValueOf(tp[k])]

\* TokenPayload.get_property_ids
get_property_ids(tp) ==
    LET props == IF tp.properties = None THEN <<>> ELSE ValueOf(tp.properties)
    IN  [i \in 1..Len(props) |-> props[i].property_id]

SeqToSet(s) == {s[i] : i \in 1..Len(s)}

\* access_hierarchy.get(level, 1)
AccessRank(level) ==
    CASE level = "guest" -> 1
      [] level = "member" -> 2
      [] level = "owner" -> 3
      [] OTHER -> 1

\* TokenPayload.has_property_access: the first entry for property_id decides
has_property_access(tp, property_id, required_level) ==
    IF tp.properties = None \/ ValueOf(tp.properties) = <<>> THEN FALSE
    ELSE LET props == ValueOf(tp.properties)
             required_rank == AccessRank(required_level)
             hits == {i \in 1..Len(props) : props[i].property_id = property_id}
         IN  IF hits = {} THEN FALSE
             ELSE LET first == CHOOSE i \in hits : \A j \in hits : i <= j
                  IN  AccessRank(props[first].access_level) >= required_rank

\* the default of the parameter required_level
DefaultRequiredLevel == "member"

\* ------------------------------------------------------------ token codec
\* JwtTokenProcessor.__init__
JwtTokenProcessor(iss, aud, key, ttl) ==
    [issuer |-> iss, audience |-> aud, secret_key |-> key, expiry_milli_seconds |-> ttl]

\* The processors of the model hold their expiry in ticks; a second is a
\* thousand milliseconds.
InTicks(milli_seconds) == (milli_seconds * TicksPerSecond) \div 1000

\* the default of the parameter expiry_milli_seconds
DefaultExpiryMilliSeconds == 3600000

\* a constructor whose default expiry is 3600
JwtTokenProcessor_default_3600(iss, aud, key) ==
    JwtTokenProcessor(iss, aud, key, InTicks(3600))

\* JwtTokenProcessor.__init__ called without expiry_milli_seconds
JwtTokenProcessor_default(iss, aud, key) ==
    JwtTokenProcessor(iss, aud, key, InTicks(DefaultExpiryMilliSeconds))

\* HMAC-SHA256 as an ideal keyed function of the signing input
HMAC(key, header, payload) == [key |-> key, header |-> header, payload |-> payload]

NoSignature == [mac |-> HMAC("", [alg |-> ""], EmptyDict), pad |-> 0]

\* jwt.encode(payload, key, algorithm='HS256'): a datetime exp becomes whole
\* seconds since the epoch (timegm(utctimetuple())), the rest is dropped.
\* The signature segment is the base64url text of the MAC; its last
\* character carries bits that are not part of the MAC (pad).
jwt_encode(payload, key, nowTicks) ==
    LET header == [alg |-> "HS256"]
        wire == IF "exp" \in DOMAIN payload
                THEN DictSet(payload, "exp", payload["exp"] \div TicksPerSecond)
                ELSE payload
    IN  [form |-> "jws", header |-> header, payload |-> wire,
         signature |-> [mac |-> HMAC(key, header, wire), pad |-> 0]]

\* JwtTokenProcessor.generate_token assigns payload['iss'], payload['aud']
\* and payload['exp'] on the dict it was given: the caller's dict after the
\* call.  exp is now + expiry, in ticks.
generate_token_payload(proc, payload, nowTicks) ==
    LET p1 == DictSet(payload, "iss", proc.issuer)
        p2 == DictSet(p1, "aud", proc.audience)
    IN  DictSet(p2, "exp", nowTicks + proc.expiry_milli_seconds)

\* JwtTokenProcessor.generate_token: the token returned, jwt.encode of that
\* dict, which truncates exp
generate_token(proc, payload, nowTicks) ==
    jwt_encode(generate_token_payload(proc, payload, nowTicks), proc.secret_key, nowTicks)

\* an exception hierarchy in which DecodeError is not an InvalidTokenError
Bases_decode_error_apart(exc) ==
    CASE exc = "ExpiredSignatureError" -> {"ExpiredSignatureError", "InvalidTokenError", "PyJWTError", "Exception"}
      [] exc \in {"InvalidSignatureError", "InvalidAlgorithmError",
                  "InvalidIssuerError", "InvalidAudienceError",
                  "MissingRequiredClaimError"} -> {exc, "InvalidTokenError", "PyJWTError", "Exception"}
      [] OTHER -> {exc, "Exception"}

\* PyJWT exception classes and their base classes
Bases(exc) ==
    CASE exc = "ExpiredSignatureError" -> {"ExpiredSignatureError", "InvalidTokenError", "PyJWTError", "Exception"}
      [] exc \in {"DecodeError", "InvalidSignatureError", "InvalidAlgorithmError",
                  "InvalidIssuerError", "InvalidAudienceError",
                  "MissingRequiredClaimError"} -> {exc, "InvalidTokenError", "PyJWTError", "Exception"}
      [] OTHER -> {exc, "Exception"}

Raised(exc) == [exc |-> exc, payload |-> EmptyDict]

\* a jwt.decode that allows a leeway of one second on exp
jwt_decode_leeway(tok, key, audience, issuer, nowTicks) ==
    IF tok.form # "jws" THEN Raised("DecodeError")
    ELSE IF tok.header.alg # "HS256" THEN Raised("InvalidAlgorithmError")
    ELSE IF tok.signature.mac # HMAC(key, tok.header, tok.payload)
         THEN Raised("InvalidSignatureError")
    ELSE IF "exp" \in DOMAIN tok.payload
            /\ (tok.payload["exp"] + 1) * TicksPerSecond <= nowTicks
         THEN Raised("ExpiredSignatureError")
    ELSE IF "iss" \notin DOMAIN tok.payload THEN Raised("MissingRequiredClaimError")
    ELSE IF tok.payload["iss"] # issuer THEN Raised("InvalidIssuerError")
    ELSE IF "aud" \notin DOMAIN tok.payload THEN Raised("MissingRequiredClaimError")
    ELSE IF tok.payload["aud"] # audience THEN Raised("InvalidAudienceError")
    ELSE [exc |-> "none", payload |-> tok.payload]

\* a jwt.decode called without issuer=, which then is not checked
jwt_decode_any_issuer(tok, key, audience, issuer, nowTicks) ==
    IF tok.form # "jws" THEN Raised("DecodeError")
    ELSE IF tok.header.alg # "HS256" THEN Raised("InvalidAlgorithmError")
    ELSE IF tok.signature.mac # HMAC(key, tok.header, tok.payload)
         THEN Raised("InvalidSignatureError")
    ELSE IF "exp" \in DOMAIN tok.payload
            /\ tok.payload["exp"] * TicksPerSecond <= nowTicks
         THEN Raised("ExpiredSignatureError")
    ELSE IF "aud" \notin DOMAIN tok.payload THEN Raised("MissingRequiredClaimError")
    ELSE IF tok.payload["aud"] # audience THEN Raised("InvalidAudienceError")
    ELSE [exc |-> "none", payload |-> tok.payload]

\* jwt.decode(token, key, algorithms=['HS256'], audience=, issuer=), in the
\* order PyJWT checks: structure, algorithm, signature (the MAC bytes; the
\* unused bits of the last base64url character are discarded), then the
\* claims exp, iss, aud.
jwt_decode(tok, key, audience, issuer, nowTicks) ==
    IF tok.form # "jws" THEN Raised("DecodeError")
    ELSE IF tok.header.alg # "HS256" THEN Raised("InvalidAlgorithmError")
    ELSE IF tok.signature.mac # HMAC(key, tok.header, tok.payload)
         THEN Raised("InvalidSignatureError")
    ELSE IF "exp" \in DOMAIN tok.payload
            /\ tok.payload["exp"] * TicksPerSecond <= nowTicks
         THEN Raised("ExpiredSignatureError")
    ELSE IF "iss" \notin DOMAIN tok.payload THEN Raised("MissingRequiredClaimError")
    ELSE IF tok.payload["iss"] # issuer THEN Raised("InvalidIssuerError")
    ELSE IF "aud" \notin DOMAIN tok.payload THEN Raised("MissingRequiredClaimError")
    ELSE IF tok.payload["aud"] # audience THEN Raised("InvalidAudienceError")
    ELSE [exc |-> "none", payload |-> tok.payload]

ErrorDict(msg) == [k \in {"error"} |-> msg]
ExpiredError == ErrorDict("Token has expired")
InvalidError == ErrorDict("Invalid token")

\* a decode_token whose except clauses are in the other order: the base
\* class InvalidTokenError is tried first
decode_token_swapped(proc, tok, nowTicks) ==
    LET r == jwt_decode(tok, proc.secret_key, proc.audience, proc.issuer, nowTicks)
    IN  IF r.exc = "none" THEN [raised |-> "none", value |-> r.payload]
        ELSE IF "InvalidTokenError" \in Bases(r.exc)
             THEN [raised |-> "none", value |-> InvalidError]
        ELSE IF "ExpiredSignatureError" \in Bases(r.exc)
             THEN [raised |-> "none", value |-> ExpiredError]
        ELSE [raised |-> r.exc, value |-> EmptyDict]

\* JwtTokenProcessor.decode_token: raised = "none" when it returns
decode_token(proc, tok, nowTicks) ==
    LET r == jwt_decode(tok, proc.secret_key, proc.audience, proc.issuer, nowTicks)
    IN  IF r.exc = "none" THEN [raised |-> "none", value |-> r.payload]
        ELSE IF "ExpiredSignatureError" \in Bases(r.exc)
             THEN [raised |-> "none", value |-> ExpiredError]
        ELSE IF "InvalidTokenError" \in Bases(r.exc)
             THEN [raised |-> "none", value |-> InvalidError]
        ELSE [raised |-> r.exc, value |-> EmptyDict]

\* ------------------------------------------------------------- auth gates
\* An HTTP outcome of a dependency: rejected with a status and detail, or
\* passed with the value handed to the handler as auth_token.
Reject(status, detail) ==
    [rejected |-> TRUE, status |-> status, detail |-> detail, auth_token |-> EmptyDict]
Pass(value) ==
    [rejected |-> FALSE, status |-> 0, detail |-> "", auth_token |-> value]

\* JwtHelper.generate_token
JwtHelper_generate_token(proc, tp, nowTicks) == generate_token(proc, to_dict(tp), nowTicks)

\* a verify_token that hands the decoded dict on when it does not validate
JwtHelper_verify_token_lenient(proc, tok, nowTicks) ==
    LET d == decode_token(proc, tok, nowTicks)
    IN  IF d.raised # "none" THEN Reject(401, "Token validation failed")
        ELSE LET tp == TokenPayload(d.value)
             IN  IF tp.ok THEN Pass(tp.value) ELSE Pass(d.value)

\* JwtHelper.verify_token
JwtHelper_verify_token(proc, tok, nowTicks) ==
    LET d == decode_token(proc, tok, nowTicks)
    IN  IF d.raised # "none" THEN Reject(401, "Token validation failed")
        ELSE IF "error" \in DOMAIN d.value THEN Reject(401, d.value["error"])
        ELSE LET tp == TokenPayload(d.value)
             IN  IF tp.ok THEN Pass(tp.value)
                 ELSE Reject(401, "Invalid token payload structure")

\* routes/storage.py verify_token: the HTTPException raised inside the try
\* is an Exception, so the except clause replaces it.
storage_verify_token(proc, tok, nowTicks) ==
    LET d == decode_token(proc, tok, nowTicks)
        inTry == IF d.raised # "none" THEN Reject(500, d.raised)
                 ELSE IF "error" \in DOMAIN d.value THEN Reject(401, d.value["error"])
                 ELSE Pass(d.value)
    IN  IF inTry.rejected THEN Reject(401, "Authorization header is missing")
        ELSE inTry

\* ------------------------------------------------------ configuration
ServiceProcessor == JwtTokenProcessor("http://jeeves4service", "http://jeeves4service",
                                      "J33v3s4s3rv1c3jeeves4service", 3)

\* the service's issuer, audience and secret, expiry left to its default
DefaultProcessor ==
    JwtTokenProcessor_default(ServiceProcessor.issuer, ServiceProcessor.audience,
                              ServiceProcessor.secret_key)

ExpiryChoices == {-1, 0, 3}
Processors ==
    {DefaultProcessor} \cup
    { JwtTokenProcessor(ServiceProcessor.issuer, ServiceProcessor.audience,
                        ServiceProcessor.secret_key, ttl) : ttl \in ExpiryChoices }
    \cup { JwtTokenProcessor(ServiceProcessor.issuer, ServiceProcessor.audience,
                             "different_secret", ttl) : ttl \in {0, 3} }
    \cup { JwtTokenProcessor("different_issuer", ServiceProcessor.audience,
                             ServiceProcessor.secret_key, ttl) : ttl \in {0, 3} }
    \cup { JwtTokenProcessor(ServiceProcessor.issuer, "different_audience",
                             ServiceProcessor.secret_key, ttl) : ttl \in {0, 3} }
Decoders == { p \in Processors : p.expiry_milli_seconds = 3 }

Claim7 == PropertyClaimDto(7, "home", "member")
Claim8 == PropertyClaimDto(8, "cabin", "owner")

\* every combination of present, absent (None) optional fields
TokenPayloads ==
    [user_id : {42}, username : {None, Some("user@x")}, trace_id : {None, Some("trace")},
     is_admin : {None, Some(TRUE), Some(FALSE)},
     properties : {None, Some(<<>>), Some(<<Claim7, Claim8>>)}]

\* payloads handed to JwtTokenProcessor.generate_token directly
OldIssAudPayload ==
    [k \in {"user_id", "iss", "aud"} |->
        CASE k = "user_id" -> 42 [] k = "iss" -> "old_issuer" [] OTHER -> "old_audience"]
RawPayloads == {EmptyDict, [k \in {"user_id"} |-> 42], OldIssAudPayload}

EmptyToken == [form |-> "empty", header |-> [alg |-> ""], payload |-> EmptyDict,
               signature |-> NoSignature]
GarbageToken == [form |-> "garbage", header |-> [alg |-> ""], payload |-> EmptyDict,
                 signature |-> NoSignature]
UnsignedToken == [form |-> "jws", header |-> [alg |-> "none"],
                  payload |-> [k \in {"user_id"} |-> 42], signature |-> NoSignature]
\* three segments whose header segment is not base64url of a JSON object
BadHeaderToken == [form |-> "bad_header", header |-> [alg |-> ""], payload |-> EmptyDict,
                   signature |-> NoSignature]
ForgedTokens == {EmptyToken, GarbageToken, BadHeaderToken, UnsignedToken}

\* ------------------------------------------------------- codec experiment
\* One token on the wire: who generated it from what, what was done to its
\* signature segment, and the outcome of the last decode of it.
NoOrigin == [kind |-> "none", payload |-> EmptyDict, caller_payload |-> EmptyDict,
             proc |-> ServiceProcessor, at |-> 0,
             macAltered |-> FALSE, padAltered |-> FALSE]
NoResult == [done |-> FALSE, proc |-> ServiceProcessor, at |-> 0,
             decoded |-> [raised |-> "none", value |-> EmptyDict],
             verified |-> Reject(0, "")]

CodecInit ==
    /\ now = 0
    /\ token = EmptyToken
    /\ origin = NoOrigin
    /\ result = NoResult

\* the login path: JwtHelper.generate_token(TokenPayload)
HelperGenerate(tp) ==
    /\ token' = JwtHelper_generate_token(ServiceProcessor, tp, now)
    /\ origin' = [kind |-> "helper", payload |-> tp,
                  caller_payload |-> generate_token_payload(ServiceProcessor, to_dict(tp), now),
                  proc |-> ServiceProcessor, at |-> now,
                  macAltered |-> FALSE, padAltered |-> FALSE]
    /\ result' = NoResult
    /\ UNCHANGED now

\* JwtTokenProcessor.generate_token(dict) on any processor
ProcessorGenerate(proc, payload) ==
    /\ token' = generate_token(proc, payload, now)
    /\ origin' = [kind |-> "processor", payload |-> payload,
                  caller_payload |-> generate_token_payload(proc, payload, now),
                  proc |-> proc, at |-> now,
                  macAltered |-> FALSE, padAltered |-> FALSE]
    /\ result' = NoResult
    /\ UNCHANGED now

\* the signature segment of the token is altered in transit: either bytes
\* of the MAC change, or only the spare bits of its last character
AlterSignature(how) ==
    /\ token.form = "jws" /\ origin.kind # "none"
    /\ \/ /\ how = "mac"
          /\ token' = [token EXCEPT !.signature.mac.key = "altered"]
          /\ origin' = [origin EXCEPT !.macAltered = TRUE]
       \/ /\ how = "pad"
          /\ token.signature.pad = 0
          /\ token' = [token EXCEPT !.signature.pad = 1]
          /\ origin' = [origin EXCEPT !.padAltered = TRUE]
    /\ result' = NoResult
    /\ UNCHANGED now

\* a string that no processor produced
PresentForged(tok) ==
    /\ token' = tok
    /\ origin' = NoOrigin
    /\ result' = NoResult
    /\ UNCHANGED now

Tick ==
    /\ now < MaxTime
    /\ now' = now + 1
    /\ UNCHANGED <<token, origin, result>>

\* decode_token by a processor, and verify_token over the same processor
Decode(proc) ==
    /\ result' = [done |-> TRUE, proc |-> proc, at |-> now,
                  decoded |-> decode_token(proc, token, now),
                  verified |-> JwtHelper_verify_token(proc, token, now)]
    /\ UNCHANGED <<now, token, origin>>

\* --------------------------------------------------------- request context
\* auth_context is a ContextVar: one value per execution context.  Every
\* request is served in a task of its own, whose context starts from the
\* server's, where the variable was never set (default None).
\* a set_token that sets the variable in a new, empty set of contexts
set_token_resetting(ctx, r, payload) ==
    [x \in DOMAIN ctx |-> IF x = r THEN Some(payload) ELSE None]

\* a set_token that writes one variable shared by all the tasks
set_token_global(ctx, r, payload) == [x \in DOMAIN ctx |-> Some(payload)]

\* RequestContext.set_token, called in the task of request r
set_token(ctx, r, payload) == [ctx EXCEPT ![r] = Some(payload)]

\* RequestContext.get_token, called in the task of request r
get_token(ctx, r) == ctx[r]

\* ------------------------------------------------------------- the routes
Requests == {"r1", "r2"}

Endpoints == {"add_household_item", "find_household_item",
              "get_property_by_id", "add_main_storage"}
\* the two routes whose handlers call RequestContext.set_token
ContextEndpoints == {"find_household_item", "authenticate_user"}

\* the dependency each route declares
GateOf(endpoint) ==
    CASE endpoint = "add_main_storage" -> "storage"
      [] endpoint = "authenticate_user" -> "none"
      [] OTHER -> "jwt_helper"

PropertyIds == {7, 8}
PropertyName(pid) == IF pid = 7 THEN "home" ELSE "cabin"
\* rows of the property table, owned by the property service
PropertyTable == {7}

\* the words of a name or of a search term, after strip(); matching by
\* to_tsquery / ilike is containment of the term's words
WordsOf(text) ==
    CASE text = "milk" -> {"milk"}
      [] text = "oat milk" -> {"oat", "milk"}
      [] text = "rice" -> {"rice"}
      [] OTHER -> {}

SearchTerms == {"milk", " "}
ItemNames == {"oat milk"}

NoArg == [search_term |-> "", general_name |-> "", property_id |-> 0, container_id |-> None]
ArgsOf(endpoint) ==
    CASE endpoint = "find_household_item" ->
            {[NoArg EXCEPT !.search_term = t] : t \in SearchTerms}
      [] endpoint = "add_household_item" ->
            {[NoArg EXCEPT !.general_name = n, !.property_id = p] :
                n \in ItemNames, p \in PropertyIds}
      [] endpoint = "get_property_by_id" ->
            {[NoArg EXCEPT !.property_id = p] : p \in PropertyIds}
      [] endpoint = "authenticate_user" -> {NoArg}
      [] OTHER ->
            {[NoArg EXCEPT !.property_id = 7, !.container_id = c] : c \in {None, Some(1)}}

\* claims of two users, as the login route builds them
Alice == [user_id |-> 42, username |-> Some("alice@x"), trace_id |-> Some("s1"),
          is_admin |-> Some(FALSE), properties |-> Some(<<Claim7>>)]
Bob == [user_id |-> 43, username |-> Some("bob@x"), trace_id |-> Some("s2"),
        is_admin |-> Some(FALSE), properties |-> Some(<<Claim8>>)]

RECURSIVE SetToSeq(_)
SetToSeq(S) ==
    IF S = {} THEN <<>>
    ELSE LET m == CHOOSE x \in S : \A y \in S : x <= y
         IN  <<m>> \o SetToSeq(S \ {m})

\* GET /internal/properties/users/{user_id}: a claim per associated
\* property, each with access level member
get_user_properties_for_claims(associated) ==
    LET ids == SetToSeq(associated)
    IN  [i \in 1..Len(ids) |-> PropertyClaimDto(ids[i], PropertyName(ids[i]), "member")]

AliceAuthResponse == [session_id |-> "s1", user_id |-> 42, email |-> "alice@x",
                      is_admin |-> FALSE]

\* a login that leaves the properties out of the payload
authenticate_user_payload_without_properties(auth_response, user_properties) ==
    [user_id |-> auth_response.user_id, username |-> Some(auth_response.email),
     trace_id |-> Some(auth_response.session_id),
     is_admin |-> Some(auth_response.is_admin), properties |-> None]

\* authenticate_user: the TokenPayload built from the authentication
\* response and the properties fetched from the property service
authenticate_user_payload(auth_response, user_properties) ==
    [user_id |-> auth_response.user_id, username |-> Some(auth_response.email),
     trace_id |-> Some(auth_response.session_id),
     is_admin |-> Some(auth_response.is_admin), properties |-> Some(user_properties)]

\* tokens a client may present: issued at tick 0 by the service for Alice
\* and Bob, issued by the service's processor for a payload without
\* user_id, or signed with another secret
AliceToken == JwtHelper_generate_token(ServiceProcessor, Alice, 0)
BobToken == JwtHelper_generate_token(ServiceProcessor, Bob, 0)
NoUserIdToken == generate_token(ServiceProcessor, [k \in {"username"} |-> "ghost"], 0)
OtherSecretToken ==
    generate_token(JwtTokenProcessor(ServiceProcessor.issuer, ServiceProcessor.audience,
                                     "different_secret", 3), to_dict(Alice), 0)
CredentialChoices ==
    {None, Some(AliceToken), Some(BobToken), Some(NoUserIdToken), Some(OtherSecretToken)}

NoResponse == [status |-> 0, detail |-> "", items |-> {}]
Response(status, detail) == [status |-> status, detail |-> detail, items |-> {}]

\* writes counts the calls of RequestContext.set_token made for the request
IdleRequest == [pc |-> "idle", endpoint |-> "find_household_item", credentials |-> None,
                arg |-> NoArg, auth_token |-> EmptyDict,
                handler_ran |-> FALSE, writes |-> 0, read |-> FALSE, seen |-> None,
                response |-> NoResponse]

PendingAdds == Cardinality({r \in Requests : req[r].pc # "idle"
                                              /\ req[r].endpoint = "add_household_item"})

RequestInit ==
    /\ now = 0
    /\ req = [r \in Requests |-> IdleRequest]
    /\ auth_context = [r \in Requests |-> None]
    /\ household = {}

\* a request arrives and is given a task with a fresh context
Arrive(r, endpoint, cred, arg) ==
    /\ req[r].pc = "idle"
    /\ endpoint = "add_household_item" =>
           Cardinality(household) + PendingAdds < MaxItems
    \* the login route reads no Authorization header
    /\ endpoint = "authenticate_user" => cred = None
    /\ req' = [req EXCEPT ![r] = [IdleRequest EXCEPT !.pc = "gate", !.endpoint = endpoint,
                                                     !.credentials = cred, !.arg = arg]]
    /\ auth_context' = [auth_context EXCEPT ![r] = None]
    /\ UNCHANGED <<now, household>>

\* HTTPBearer(): no Authorization header, or not a Bearer one
HTTPBearer(cred) ==
    IF cred = None THEN Reject(403, "Not authenticated") ELSE Pass(ValueOf(cred))

\* the dependencies of the route are resolved: HTTPBearer, then verify_token
ResolveDependencies(endpoint, cred, nowTicks) ==
    LET bearer == HTTPBearer(cred)
    IN  IF GateOf(endpoint) = "none" THEN Pass(EmptyDict)
        ELSE IF bearer.rejected THEN bearer
        ELSE IF GateOf(endpoint) = "storage"
             THEN storage_verify_token(ServiceProcessor, bearer.auth_token, nowTicks)
             ELSE JwtHelper_verify_token(ServiceProcessor, bearer.auth_token, nowTicks)

Gate(r) ==
    /\ req[r].pc = "gate"
    /\ LET g == ResolveDependencies(req[r].endpoint, req[r].credentials, now)
       IN  req' = [req EXCEPT ![r].auth_token = g.auth_token,
                              ![r].pc = IF g.rejected THEN "done" ELSE "handler",
                              ![r].response = IF g.rejected
                                              THEN Response(g.status, g.detail)
                                              ELSE NoResponse]
    /\ UNCHANGED <<now, auth_context, household>>

\* ---------------------------------------------------------- the services
QueryLimit == 10

Strip(text) == IF text = " " THEN "" ELSE text

Min(a, b) == IF a < b THEN a ELSE b

\* a where clause without the property filter
QueryMatches_unscoped(item, accessible_property_ids, search_term) ==
    WordsOf(search_term) \subseteq WordsOf(item.general_name)

\* the where clause of the search: the property filter and the text match
QueryMatches(item, accessible_property_ids, search_term) ==
    /\ item.property_id \in SeqToSet(accessible_property_ids)
    /\ WordsOf(search_term) \subseteq WordsOf(item.general_name)

\* FindItem.find_household_item: the item lists it may return, given what
\* RequestContext.get_token() returned and the rows of the table
find_household_item(token_payload, search_term, rows) ==
    IF Strip(search_term) = "" THEN {{}}
    ELSE LET accessible_property_ids ==
                 IF token_payload # None
                 THEN get_property_ids(ValueOf(token_payload)) ELSE <<>>
             matched == {it \in rows :
                            QueryMatches(it, accessible_property_ids, Strip(search_term))}
         IN  IF accessible_property_ids = <<>> THEN {{}}
             ELSE {S \in SUBSET matched :
                      Cardinality(S) = Min(QueryLimit, Cardinality(matched))}

\* AddItem.add_household_item: the row it commits
NewHouseholdRow(rows, arg) ==
    [id |-> Cardinality(rows) + 1, general_name |-> arg.general_name,
     property_id |-> arg.property_id]

\* the route handler starts: what it does before calling its service
HandlerBegin(r) ==
    /\ req[r].pc = "handler"
    /\ \/ /\ req[r].endpoint = "find_household_item"
          /\ auth_context' = set_token(auth_context, r, req[r].auth_token)
          /\ req' = [req EXCEPT ![r].pc = "service", ![r].handler_ran = TRUE,
                                ![r].writes = @ + 1]
       \/ /\ req[r].endpoint \in {"add_household_item", "get_property_by_id",
                                   "authenticate_user"}
          /\ req' = [req EXCEPT ![r].pc = "service", ![r].handler_ran = TRUE]
          /\ UNCHANGED auth_context
       \/ /\ req[r].endpoint = "add_main_storage"
          \* container_id given: 400; else request.user_id = auth_token.get("user_id")
          \* raises ValueError (the DTO has no such field), answered 500
          /\ req' = [req EXCEPT ![r].pc = "done", ![r].handler_ran = TRUE,
                                ![r].response =
                                    IF req[r].arg.container_id # None
                                    THEN Response(400, "Main storage cannot have a container_id")
                                    ELSE Response(500, "object has no field user_id")]
          /\ UNCHANGED auth_context
    /\ UNCHANGED <<now, household>>

\* the service call, whose log lines read RequestContext.get_token()
\* (ContextAwareFormatter.format), and the response of the handler
Service(r) ==
    /\ req[r].pc = "service"
    /\ LET seen == get_token(auth_context, r)
       IN  \/ /\ req[r].endpoint = "find_household_item"
              /\ \E items \in find_household_item(seen, req[r].arg.search_term, household) :
                    req' = [req EXCEPT ![r].pc = "done", ![r].read = TRUE, ![r].seen = seen,
                                       ![r].response = [status |-> 200, detail |-> "",
                                                        items |-> items]]
              /\ UNCHANGED <<household, auth_context>>
           \/ /\ req[r].endpoint = "add_household_item"
              /\ household' = household \cup {NewHouseholdRow(household, req[r].arg)}
              /\ req' = [req EXCEPT ![r].pc = "done", ![r].read = TRUE, ![r].seen = seen,
                                    ![r].response = Response(200, "")]
              /\ UNCHANGED auth_context
           \/ /\ req[r].endpoint = "get_property_by_id"
              /\ req' = [req EXCEPT ![r].pc = "done", ![r].read = TRUE, ![r].seen = seen,
                                    ![r].response =
                                        IF req[r].arg.property_id \in PropertyTable
                                        THEN Response(200, "")
                                        ELSE Response(500, "404: Property not found")]
              /\ UNCHANGED <<household, auth_context>>
           \* authenticate raises, answered 500; or the payload is built
           \* from the user's properties, signed and put in the context
           \/ /\ req[r].endpoint = "authenticate_user"
              /\ \/ /\ req' = [req EXCEPT ![r].pc = "done", ![r].read = TRUE,
                                          ![r].seen = seen,
                                          ![r].response = Response(500, "Invalid credentials")]
                    /\ UNCHANGED auth_context
                 \/ LET payload == authenticate_user_payload(
                                       AliceAuthResponse,
                                       get_user_properties_for_claims(PropertyTable))
                    IN  /\ auth_context' = set_token(auth_context, r, payload)
                        /\ req' = [req EXCEPT ![r].pc = "done", ![r].read = TRUE,
                                              ![r].seen = seen, ![r].writes = @ + 1,
                                              ![r].response = Response(200, "")]
              /\ UNCHANGED household
    /\ UNCHANGED now

\* the response is sent and the task, with its context, ends
Complete(r) ==
    /\ req[r].pc = "done"
    /\ req' = [req EXCEPT ![r] = IdleRequest]
    /\ auth_context' = [auth_context EXCEPT ![r] = None]
    /\ UNCHANGED <<now, household>>

ClockTick ==
    /\ now < MaxTime
    /\ now' = now + 1
    /\ UNCHANGED <<req, auth_context, household>>

\* ------------------------------------------- the services, called directly
\* A service object is built by the container with a session of its own
\* and serves one call.  The session is the calls made on it.
NewSession == [execute_calls |-> 0, delete_calls |-> 0, commit_calls |-> 0,
               committed |-> FALSE, rollback_calls |-> 0, close_calls |-> 0]

\* sqlalchemy.exc and builtin exception classes with their base classes
SqlBases(exc) ==
    CASE exc = "IntegrityError" -> {"IntegrityError", "SQLAlchemyError", "Exception"}
      [] exc = "SQLAlchemyError" -> {"SQLAlchemyError", "Exception"}
      [] exc = "ValueError" -> {"ValueError", "Exception"}
      [] OTHER -> {"Exception"}

\* what the database does to the call: the session method that raises (at),
\* the exception it raises, and whether rollback() and close() raise too
NoFault == [at |-> "none", exc |-> "none", rollback_fails |-> FALSE, close_fails |-> FALSE]
Faults(points, excs) ==
    {[NoFault EXCEPT !.close_fails = c] : c \in BOOLEAN}
    \cup [at : points, exc : excs, rollback_fails : BOOLEAN, close_fails : BOOLEAN]

\* try: session.rollback() except Exception: log
TryRollback(session, fault) == [session EXCEPT !.rollback_calls = @ + 1]

\* finally: try: if self.session: session.close() except Exception: log
FinallyClose(session, fault) == [session EXCEPT !.close_calls = @ + 1]

\* a find_household_item that builds and runs the query whatever the
\* property ids are
FindItem_find_household_item_always_queries(token_payload, search_term, rows, fault) ==
    IF Strip(search_term) = ""
    THEN {[items |-> {}, raised |-> "none", session |-> NewSession]}
    ELSE LET executed == [NewSession EXCEPT !.execute_calls = 1]
         IN  IF fault.at = "execute"
             THEN {[items |-> {}, raised |-> "none",
                    session |-> FinallyClose(
                        IF "SQLAlchemyError" \in SqlBases(fault.exc)
                        THEN TryRollback(executed, fault) ELSE executed, fault)]}
             ELSE {[items |-> its, raised |-> "none",
                    session |-> FinallyClose(executed, fault)] :
                      its \in find_household_item(token_payload, search_term, rows)}

\* FindItem.find_household_item with its session: the outcomes it may have,
\* the returned items, the exception that leaves it and the session after
FindItem_find_household_item(token_payload, search_term, rows, fault) ==
    IF Strip(search_term) = ""
    THEN {[items |-> {}, raised |-> "none", session |-> NewSession]}
    ELSE LET accessible_property_ids ==
                 IF token_payload # None
                 THEN get_property_ids(ValueOf(token_payload)) ELSE <<>>
             executed == [NewSession EXCEPT !.execute_calls = 1]
         IN  IF accessible_property_ids = <<>>
             THEN {[items |-> {}, raised |-> "none",
                    session |-> FinallyClose(NewSession, fault)]}
             ELSE IF fault.at = "execute"
             THEN {[items |-> {}, raised |-> "none",
                    session |-> FinallyClose(
                        IF "SQLAlchemyError" \in SqlBases(fault.exc)
                        THEN TryRollback(executed, fault) ELSE executed, fault)]}
             ELSE {[items |-> its, raised |-> "none",
                    session |-> FinallyClose(executed, fault)] :
                      its \in find_household_item(token_payload, search_term, rows)}

\* the err text of the except clause that catches the exception
RemoveErr(exc) ==
    IF "IntegrityError" \in SqlBases(exc) THEN "Integrity constraint violation"
    ELSE IF "SQLAlchemyError" \in SqlBases(exc) THEN "SQLAlchemy error"
    ELSE "Unexpected error"

\* a remove_item whose except clauses call rollback() outside a try
RemoveItem_remove_item_bare_rollback(item_id, rows, fault) ==
    LET found == {it \in rows : it.id = item_id}
        queried == [NewSession EXCEPT !.execute_calls = 1]
        deleted == [queried EXCEPT !.delete_calls = 1]
        commit == [deleted EXCEPT !.commit_calls = 1]
        Failed(session) ==
            [is_success |-> FALSE, err |-> RemoveErr(fault.exc),
             raised |-> IF fault.rollback_fails THEN "Exception" ELSE "none",
             rows |-> rows,
             session |-> FinallyClose(TryRollback(session, fault), fault)]
    IN  IF fault.at = "query" THEN Failed(queried)
        ELSE IF found = {}
             THEN [is_success |-> FALSE, err |-> "Item does not exist", raised |-> "none",
                   rows |-> rows, session |-> FinallyClose(queried, fault)]
        ELSE IF fault.at = "delete" THEN Failed(deleted)
        ELSE IF fault.at = "commit" THEN Failed(commit)
        ELSE [is_success |-> TRUE, err |-> "", raised |-> "none", rows |-> rows \ found,
              session |-> FinallyClose([commit EXCEPT !.committed = TRUE], fault)]

\* RemoveItem.remove_item: the response, the exception that leaves it,
\* the rows of the table after it and the session after it
RemoveItem_remove_item(item_id, rows, fault) ==
    LET found == {it \in rows : it.id = item_id}
        queried == [NewSession EXCEPT !.execute_calls = 1]
        deleted == [queried EXCEPT !.delete_calls = 1]
        commit == [deleted EXCEPT !.commit_calls = 1]
        Failed(session) ==
            [is_success |-> FALSE, err |-> RemoveErr(fault.exc), raised |-> "none",
             rows |-> rows,
             session |-> FinallyClose(TryRollback(session, fault), fault)]
    IN  IF fault.at = "query" THEN Failed(queried)
        ELSE IF found = {}
             THEN [is_success |-> FALSE, err |-> "Item does not exist", raised |-> "none",
                   rows |-> rows, session |-> FinallyClose(queried, fault)]
        ELSE IF fault.at = "delete" THEN Failed(deleted)
        ELSE IF fault.at = "commit" THEN Failed(commit)
        ELSE [is_success |-> TRUE, err |-> "", raised |-> "none", rows |-> rows \ found,
              session |-> FinallyClose([commit EXCEPT !.committed = TRUE], fault)]

\* the inputs of the direct calls
UnitRows == {[id |-> 1, general_name |-> "oat milk", property_id |-> 7],
             [id |-> 2, general_name |-> "oat milk", property_id |-> 8]}
UnitItemIds == {1, 2, 3}
UnitSearchTerms == {"", " ", "milk"}
UnitContexts == {None, Some(Alice), Some([Alice EXCEPT !.properties = None]),
                 Some([Alice EXCEPT !.properties = Some(<<>>)])}
FindFaults == Faults({"execute"}, {"SQLAlchemyError", "ValueError", "Exception"})
RemoveFaults == Faults({"query", "delete", "commit"},
                       {"IntegrityError", "SQLAlchemyError", "Exception"})

\* the last call made, its inputs and its outcome
NoCall == [op |-> "none", token_payload |-> None, search_term |-> "", item_id |-> 0,
           property_id |-> 0, required_level |-> None,
           fault |-> NoFault, rows_before |-> {}, items |-> {}, is_success |-> FALSE,
           err |-> "", raised |-> "none", session |-> NewSession]

\* claims of up to two entries over two properties and the three levels
AccessLevels == {"guest", "member", "owner"}
UnitClaims == {PropertyClaimDto(pid, PropertyName(pid), level) :
                  pid \in PropertyIds, level \in AccessLevels}
UnitClaimLists == {None, Some(<<>>)} \cup {Some(<<c>>) : c \in UnitClaims}
                  \cup {Some(<<c, d>>) : c \in UnitClaims, d \in UnitClaims}

\* TokenPayload.has_property_access called with or without required_level
CallHasPropertyAccess(properties, property_id, required_level) ==
    /\ unit' = [NoCall EXCEPT
                   !.op = "has_property_access",
                   !.token_payload = Some([Alice EXCEPT !.properties = properties]),
                   !.property_id = property_id, !.required_level = required_level,
                   !.is_success =
                       has_property_access([Alice EXCEPT !.properties = properties],
                                           property_id,
                                           IF required_level = None
                                           THEN DefaultRequiredLevel
                                           ELSE ValueOf(required_level))]
    /\ UNCHANGED household

CallFind(token_payload, search_term, fault) ==
    /\ \E out \in FindItem_find_household_item(token_payload, search_term, household, fault) :
          unit' = [NoCall EXCEPT !.op = "find_household_item",
                                 !.token_payload = token_payload,
                                 !.search_term = search_term, !.fault = fault,
                                 !.rows_before = household, !.items = out.items,
                                 !.raised = out.raised, !.session = out.session]
    /\ UNCHANGED household

CallRemove(item_id, fault) ==
    LET out == RemoveItem_remove_item(item_id, household, fault)
    IN  /\ unit' = [NoCall EXCEPT !.op = "remove_item", !.item_id = item_id,
                                  !.fault = fault, !.rows_before = household,
                                  !.is_success = out.is_success, !.err = out.err,
                                  !.raised = out.raised, !.session = out.session]
        /\ household' = out.rows

\* ------------------------------------------------- login and its claims
\* property.associations holds the rows of one user: the ids of the
\* properties the user is associated with
NoClient == [token |-> None, login_assoc |-> {}, at |-> 0, fetch |-> "none"]
NoSearch == [done |-> FALSE, at |-> 0, search_term |-> "", assoc_now |-> {},
             status |-> 0, items |-> {}]

\* add_users_to_property: the user becomes associated with a property
Associate(pid) ==
    /\ pid \notin property_association
    /\ property_association' = property_association \cup {pid}
    /\ UNCHANGED <<now, household, client, search>>

\* a row of property.associations is deleted
Dissociate(pid) ==
    /\ pid \in property_association
    /\ property_association' = property_association \ {pid}
    /\ UNCHANGED <<now, household, client, search>>

\* a query that leaves the filter on the user out
get_properties_of_any_user(associated, query_fails) ==
    IF query_fails THEN {} ELSE PropertyIds
\* GetProperty.get_properties: the properties joined with the associations
\* of the user; the empty list when the query raises
get_properties(associated, query_fails) ==
    IF query_fails THEN {} ELSE associated

\* how the request of the property client ends: answered with the
\* properties, answered while the query of the property service failed,
\* not answered, answered with an error status, answered with a body that
\* does not parse
FetchOutcomes == {"ok", "query_error", "request_error", "status_error", "malformed"}

\* PropertyServiceClient.get_user_properties_sync
get_user_properties_sync(outcome, associated) ==
    IF outcome \in {"request_error", "status_error", "malformed"} THEN <<>>
    ELSE get_user_properties_for_claims(get_properties(associated, outcome = "query_error"))

\* POST /users/authenticate with good credentials: the client receives the
\* token in the Authorization header of the response
LoginFetch(outcome) ==
    LET user_properties == get_user_properties_sync(outcome, property_association)
        payload == authenticate_user_payload(AliceAuthResponse, user_properties)
    IN  /\ client' = [token |-> Some(JwtHelper_generate_token(ServiceProcessor, payload, now)),
                      login_assoc |-> property_association, at |-> now,
                      fetch |-> outcome]
        /\ search' = NoSearch
        /\ UNCHANGED <<now, household, property_association>>

\* the same, the property service answering with the properties
Login == LoginFetch("ok")

\* GET /household/find with the token the client holds: the gate, the
\* handler and the service
Search(search_term) ==
    /\ client.token # None
    /\ LET g == ResolveDependencies("find_household_item", client.token, now)
           context == set_token([r \in {"r"} |-> None], "r", g.auth_token)
       IN  IF g.rejected
           THEN search' = [done |-> TRUE, at |-> now, search_term |-> search_term,
                           assoc_now |-> property_association,
                           status |-> g.status, items |-> {}]
           ELSE \E items \in find_household_item(get_token(context, "r"),
                                                  search_term, household) :
                   search' = [done |-> TRUE, at |-> now, search_term |-> search_term,
                              assoc_now |-> property_association,
                              status |-> 200, items |-> items]
    /\ UNCHANGED <<now, household, property_association, client>>

LoginTick ==
    /\ now < MaxTime
    /\ now' = now + 1
    /\ UNCHANGED <<household, property_association, client, search>>

\* ------------------------------------------------ the password processor
\* A str or bytes value.  The bytes made by encode() keep the text, + appends
\* the salt, and sha256 is taken to be injective: a digest is named by the
\* bytes it was computed from.
PyStr(s) == [is |-> "str", text |-> s, salt |-> ""]
SaltBytes(s) == [is |-> "bytes", text |-> "", salt |-> s]
encode(x) == [x EXCEPT !.is = "bytes"]
sha256(encoded_password, salt) ==
    [is |-> "digest", text |-> encoded_password.text, salt |-> salt.salt]

\* generate_salt(): secrets.token_hex(16).encode()
Salts == {"s1", "s2"}
generate_salt == {SaltBytes(s) : s \in Salts}

\* generate_hash(password), salt being what generate_salt() returned
generate_hash(password, salt) ==
    [password_hash |-> sha256(encode(PyStr(password)), salt), salt |-> salt]

\* ------------------------------------------------------ the user service
\* a row of users with the row of user_passwords of the same user, if any
UserRow(id, first_name, email, hashed, password_str) ==
    [id |-> id, first_name |-> first_name, email |-> email,
     password_hash |-> hashed.password_hash, salt |-> hashed.salt,
     password_str |-> password_str]

Emails == {"a@x.io", "b@x.io"}
NextUserId(rows) == Cardinality(rows) + 1

\* the InviteUser DTO
InviteUser(email) == [first_name |-> "Invited", email |-> email]
InviteRequests ==
    UNION {[1..n -> {InviteUser(e) : e \in Emails}] : n \in 0..MaxInvites}

\* the eight characters drawn with secrets.choice
DynamicPassword == "Ab3dE6gH"

\* the salt generate_salt() returns for the i-th user of one call, rnd being
\* the salt of the first
InviteSalt(rnd, i) ==
    IF i % 2 = 1 THEN rnd ELSE CHOOSE s \in generate_salt : s # rnd \/ Cardinality(generate_salt) = 1

\* what strikes the i-th user of a call: nothing, or an exception raised by
\* crypto_hash_service, session.flush() or session.commit()
InviteFaultPoints == {"none", "crypto_hash_service", "flush", "commit"}
InviteFaults(n) == [1..n -> InviteFaultPoints]

NoMessage == [template |-> "", successful_invites |-> None, failed_invites |-> None,
              failed_users |-> None]

InviteStart(rows) ==
    [users |-> rows, session |-> NewSession, successful_invites |-> 0,
     failed_invites |-> 0, failed_users |-> <<>>, committed |-> <<>>,
     processed |-> 0, raised |-> "none", message |-> NoMessage]

\* a pass that counts the failure and goes on without session.rollback()
invite_user_without_rollback(st, user, at, rollback_fails, salt) ==
    LET duplicate == \E u \in st.users : u.email = user.email
        before_commit == at \in {"crypto_hash_service", "flush"} \/ duplicate
        tried == IF before_commit THEN st.session
                 ELSE [st.session EXCEPT !.commit_calls = @ + 1,
                                         !.committed = @ \/ at # "commit"]
        row == UserRow(NextUserId(st.users), user.first_name, user.email,
                       generate_hash(DynamicPassword, salt), Some(DynamicPassword))
    IN  IF ~before_commit /\ at # "commit"
        THEN [st EXCEPT !.users = @ \cup {row}, !.session = tried,
                        !.successful_invites = @ + 1,
                        !.committed = Append(@, user.email),
                        !.processed = @ + 1]
        ELSE LET rolled == tried
             IN  IF rollback_fails
                 THEN [st EXCEPT !.session = rolled, !.processed = @ + 1,
                                 !.raised = "Exception"]
                 ELSE [st EXCEPT !.session = rolled, !.processed = @ + 1,
                                 !.failed_invites = @ + 1,
                                 !.failed_users = Append(@, user.email)]
\* one pass of the loop of send_invite: add, flush, add, commit; on any
\* exception rollback, count the failure and continue
invite_user(st, user, at, rollback_fails, salt) ==
    LET duplicate == \E u \in st.users : u.email = user.email
        before_commit == at \in {"crypto_hash_service", "flush"} \/ duplicate
        tried == IF before_commit THEN st.session
                 ELSE [st.session EXCEPT !.commit_calls = @ + 1,
                                         !.committed = @ \/ at # "commit"]
        row == UserRow(NextUserId(st.users), user.first_name, user.email,
                       generate_hash(DynamicPassword, salt), Some(DynamicPassword))
    IN  IF ~before_commit /\ at # "commit"
        THEN [st EXCEPT !.users = @ \cup {row}, !.session = tried,
                        !.successful_invites = @ + 1,
                        !.committed = Append(@, user.email),
                        !.processed = @ + 1]
        ELSE LET rolled == [tried EXCEPT !.rollback_calls = @ + 1]
             IN  IF rollback_fails
                 THEN [st EXCEPT !.session = rolled, !.processed = @ + 1,
                                 !.raised = "Exception"]
                 ELSE [st EXCEPT !.session = rolled, !.processed = @ + 1,
                                 !.failed_invites = @ + 1,
                                 !.failed_users = Append(@, user.email)]

\* for user in request: ...
RECURSIVE invite_loop(_, _, _, _, _, _)
invite_loop(request, i, st, faults, rollback_fails, rnd) ==
    IF i > Len(request) \/ st.raised # "none" THEN st
    ELSE invite_loop(request, i + 1,
                     invite_user(st, request[i], faults[i], rollback_fails,
                                 InviteSalt(rnd, i)),
                     faults, rollback_fails, rnd)

\* the summary returned by send_invite
invite_summary(successful_invites, failed_invites, failed_users) ==
    IF failed_invites = 0
    THEN [template |-> "All {successful_invites} users invited successfully",
          successful_invites |-> Some(successful_invites),
          failed_invites |-> None, failed_users |-> None]
    ELSE IF successful_invites = 0
    THEN [template |-> "Failed to invite all {failed_invites} users",
          successful_invites |-> None,
          failed_invites |-> Some(failed_invites), failed_users |-> None]
    ELSE [template |-> "Invited {successful_invites} users successfully, {failed_invites} failed. Failed users: {', '.join(failed_users)}",
          successful_invites |-> Some(successful_invites),
          failed_invites |-> Some(failed_invites),
          failed_users |-> Some(failed_users)]

\* InviteUserService.send_invite on the table rows
InviteUserService_send_invite(request, rows, faults, rollback_fails, close_fails, rnd) ==
    LET st == invite_loop(request, 1, InviteStart(rows), faults, rollback_fails, rnd)
    IN  IF st.raised # "none" THEN st
        ELSE LET closed == [st EXCEPT !.session.close_calls = @ + 1]
             IN  IF close_fails THEN [closed EXCEPT !.raised = "Exception"]
                 ELSE [closed EXCEPT !.message =
                          invite_summary(st.successful_invites, st.failed_invites,
                                         st.failed_users)]

\* the users table before any call of the experiment
InviteTables ==
    {{}} \cup {{UserRow(1, "Ann", e, generate_hash("pw1", s), None)} :
                   e \in Emails, s \in generate_salt}

NoInviteCall ==
    [op |-> "none", request |-> <<>>, faults |-> <<>>, rollback_fails |-> FALSE,
     close_fails |-> FALSE, users_before |-> {}, out |-> InviteStart({})]

\* the container builds a service object with a session of its own
NewInviteService ==
    /\ invite_call.op # "none"
    /\ invite_call' = NoInviteCall
    /\ UNCHANGED users

CallSendInvite(request, faults, rollback_fails, close_fails, rnd) ==
    /\ invite_call.op = "none"
    /\ LET out == InviteUserService_send_invite(request, users, faults,
                                                rollback_fails, close_fails, rnd)
       IN  /\ users' = out.users
           /\ invite_call' = [op |-> "send_invite", request |-> request,
                              faults |-> faults, rollback_fails |-> rollback_fails,
                              close_fails |-> close_fails, users_before |-> users,
                              out |-> out]

\* -------------------------------------------- the user service: passwords
\* verify_password(stored_hash, password, salt); password.encode() raises
\* AttributeError on a value that is not a str
verify_password_unsalted(stored_hash, password, salt) ==
    IF password.is # "str" THEN [raised |-> "AttributeError", value |-> FALSE]
    ELSE [raised |-> "none",
          value |-> sha256(encode(password), SaltBytes("")) = stored_hash]
verify_password(stored_hash, password, salt) ==
    IF password.is # "str" THEN [raised |-> "AttributeError", value |-> FALSE]
    ELSE [raised |-> "none", value |-> sha256(encode(password), salt) = stored_hash]

Passwords == {"correct horse", "battery staple", "short"}
PasswordLen(password) == IF password = "short" THEN 5 ELSE 14

NoUserOut == [users |-> {}, raised |-> "none", message |-> "", user_id |-> 0,
              session |-> NewSession]

\* register_user with no additional users: validate, hash, add, flush (the
\* unique e-mail is checked), commit; the family row is left out
register_user(request, rows, salt, commit_fails) ==
    LET out == [NoUserOut EXCEPT !.users = rows]
        rolled == [out EXCEPT !.session.rollback_calls = 1]
        id == NextUserId(rows)
    IN  IF PasswordLen(request.password) < 8
        THEN [rolled EXCEPT !.raised = "ValueError",
                            !.message = "Password must be at least 8 characters long"]
        ELSE IF \E u \in rows : u.email = request.email
        THEN [rolled EXCEPT !.raised = "IntegrityError"]
        ELSE IF commit_fails
        THEN [rolled EXCEPT !.raised = "Exception", !.session.commit_calls = 1]
        ELSE [out EXCEPT !.users = rows \cup
                             {UserRow(id, request.first_name, request.email,
                                      generate_hash(request.password, salt), None)},
                         !.user_id = id,
                         !.message = "User registration completed successfully",
                         !.session.commit_calls = 1, !.session.committed = TRUE]

\* AuthenticateUser.authenticate
AuthenticateUser_authenticate(email, password, rows) ==
    LET found == {u \in rows : u.email = email}
        out == [NoUserOut EXCEPT !.users = rows]
    IN  IF found = {}
        THEN [out EXCEPT !.raised = "ValueError", !.message = "User not found"]
        ELSE LET user == CHOOSE u \in found : TRUE
                 v == verify_password(user.password_hash, PyStr(password), user.salt)
             IN  IF v.raised # "none" THEN [out EXCEPT !.raised = v.raised]
                 ELSE IF ~v.value
                 THEN [out EXCEPT !.raised = "ValueError", !.message = "Invalid password"]
                 ELSE [out EXCEPT !.user_id = user.id]

\* ChangePasswordService.change_password, wired by the container:
\* crypto_verify_service is verify_password, crypto_hash_service generate_hash
ChangePasswordService_change_password(request, rows, salt, commit_fails) ==
    LET found == {u \in rows : u.id = request.user_id}
        out == [NoUserOut EXCEPT !.users = rows, !.session.close_calls = 1]
        rolled == [out EXCEPT !.session.rollback_calls = 1]
    IN  IF found = {}
        THEN [rolled EXCEPT !.raised = "ValueError", !.message = "User not found"]
        ELSE LET user == CHOOSE u \in found : TRUE
                 v == verify_password(user.password_hash, PyStr(request.old_password),
                                      user.salt)
                 hashed == generate_hash(request.new_password, salt)
             IN  IF v.raised # "none" THEN [rolled EXCEPT !.raised = v.raised]
                 ELSE IF ~v.value
                 THEN [rolled EXCEPT !.raised = "ValueError",
                                     !.message = "Invalid old password"]
                 ELSE IF commit_fails
                 THEN [rolled EXCEPT !.raised = "Exception", !.session.commit_calls = 1]
                 ELSE [out EXCEPT
                          !.users = (rows \ {user}) \cup
                              {[user EXCEPT !.password_hash = hashed.password_hash,
                                            !.salt = hashed.salt,
                                            !.password_str = Some(request.new_password)]},
                          !.user_id = request.user_id,
                          !.message = "Password changed successfully",
                          !.session.commit_calls = 1, !.session.committed = TRUE]

\* CompleteRegistrationService.complete_registration, wired by the
\* container: crypto_verify_service is verify_password and is called with
\* (request.old_password, user.password_hash, user.salt)
CompleteRegistrationService_complete_registration(request, rows, salt, commit_fails) ==
    LET found == {u \in rows : u.id = request.user_id}
        out == [NoUserOut EXCEPT !.users = rows, !.session.close_calls = 1]
        rolled == [out EXCEPT !.session.rollback_calls = 1]
    IN  IF found = {}
        THEN [rolled EXCEPT !.raised = "ValueError", !.message = "User not found"]
        ELSE LET user == CHOOSE u \in found : TRUE
                 v == verify_password(PyStr(request.old_password), user.password_hash,
                                      user.salt)
                 hashed == generate_hash(request.new_password, salt)
             IN  IF v.raised # "none" THEN [rolled EXCEPT !.raised = v.raised]
                 ELSE IF ~v.value
                 THEN [rolled EXCEPT !.raised = "ValueError",
                                     !.message = "Invalid old password"]
                 ELSE IF commit_fails
                      \/ \E u \in rows : u.id # user.id /\ u.email = request.email
                 THEN [rolled EXCEPT !.raised = "Exception", !.session.commit_calls = 1]
                 ELSE [out EXCEPT
                          !.users = (rows \ {user}) \cup
                              {[user EXCEPT !.first_name = request.first_name,
                                            !.email = request.email,
                                            !.password_hash = hashed.password_hash,
                                            !.salt = hashed.salt]},
                          !.user_id = request.user_id,
                          !.message = "Registration completed successfully",
                          !.session.commit_calls = 1, !.session.committed = TRUE]

\* requests of the experiment; 999 is the id of no user
RegisterUserRequests == [first_name : {"Ann"}, email : Emails, password : Passwords]
ChangePasswordRequests ==
    [user_id : {1, 2, 999}, old_password : Passwords,
     new_password : {"correct horse", "battery staple"}]
CompleteRegistrationRequests ==
    [user_id : {1, 999}, first_name : {"Bea"}, email : Emails,
     old_password : Passwords, new_password : {"battery staple"}]

NoUserCall ==
    [op |-> "none", email |-> "", password |-> "",
     request |-> [user_id |-> 0, first_name |-> "", email |-> "",
                  old_password |-> "", new_password |-> ""],
     users_before |-> {}, password_before |-> EmptyDict, out |-> NoUserOut]

\* password_set[id] is the password last set with success for the user
CallRegisterUser(request, salt, commit_fails) ==
    LET out == register_user(request, users, salt, commit_fails)
    IN  /\ users' = out.users
        /\ password_set' = IF out.raised = "none"
                           THEN DictSet(password_set, out.user_id, request.password)
                           ELSE password_set
        /\ user_call' = [NoUserCall EXCEPT !.op = "register_user",
                            !.email = request.email, !.password = request.password,
                            !.users_before = users, !.password_before = password_set,
                            !.out = out]

CallAuthenticate(email, password) ==
    LET out == AuthenticateUser_authenticate(email, password, users)
    IN  /\ user_call' = [NoUserCall EXCEPT !.op = "authenticate", !.email = email,
                            !.password = password, !.users_before = users,
                            !.password_before = password_set, !.out = out]
        /\ UNCHANGED <<users, password_set>>

CallChangePassword(request, salt, commit_fails) ==
    LET out == ChangePasswordService_change_password(request, users, salt, commit_fails)
    IN  /\ users' = out.users
        /\ password_set' = IF out.raised = "none"
                           THEN DictSet(password_set, request.user_id, request.new_password)
                           ELSE password_set
        /\ user_call' = [NoUserCall EXCEPT !.op = "change_password",
                            !.request = [NoUserCall.request EXCEPT
                                !.user_id = request.user_id,
                                !.old_password = request.old_password,
                                !.new_password = request.new_password],
                            !.users_before = users, !.password_before = password_set,
                            !.out = out]

CallCompleteRegistration(request, salt, commit_fails) ==
    LET out == CompleteRegistrationService_complete_registration(request, users, salt,
                                                                 commit_fails)
    IN  /\ users' = out.users
        /\ password_set' = IF out.raised = "none"
                           THEN DictSet(password_set, request.user_id, request.new_password)
                           ELSE password_set
        /\ user_call' = [NoUserCall EXCEPT !.op = "complete_registration",
                            !.request = request,
                            !.users_before = users, !.password_before = password_set,
                            !.out = out]

\* -------------------------------------- the property service: associations
\* property.associations: the rows have a key of their own and no
\* constraint ties property_id and user_id, so the table is the number of
\* rows it holds for each (property_id, user_id)
UserIds == {1, 2}
NoAssociations == [p \in PropertyIds \X UserIds |-> 0]
RowsOf(rows, property_id, user_id) == rows[<<property_id, user_id>>]

\* the AddUsersPropertyRequest DTO; 999 is the id of no property
AddUsersPropertyRequests ==
    [property_id : PropertyIds \cup {999},
     user_ids : UNION {[1..n -> UserIds] : n \in 0..MaxUserIds}]

\* for user_id in new_user_ids: session.add(PropertyAssociation(...))
RECURSIVE add_associations(_, _, _)
add_associations(rows, property_id, new_user_ids) ==
    IF new_user_ids = <<>> THEN rows
    ELSE add_associations(
             [rows EXCEPT ![<<property_id, Head(new_user_ids)>>] = @ + 1],
             property_id, Tail(new_user_ids))

\* AddUsersProperty.add_users_to_property on the rows of the table; every
\* property of PropertyIds exists
AddUsersProperty_add_users_to_property(request, rows, commit_fails) ==
    IF request.property_id \notin PropertyIds
    THEN [rows |-> rows, raised |-> "ValueError", message |-> "", added |-> 0,
          session |-> [NewSession EXCEPT !.rollback_calls = 1]]
    ELSE LET existing_user_ids ==
                 {user_id \in SeqToSet(request.user_ids) :
                      RowsOf(rows, request.property_id, user_id) > 0}
             IsNew(user_id) == user_id \notin existing_user_ids
             new_user_ids == SelectSeq(request.user_ids, IsNew)
         IN  IF new_user_ids = <<>>
             THEN [rows |-> rows, raised |-> "none", added |-> 0,
                   message |-> "All specified users are already associated with property '{name}'",
                   session |-> NewSession]
             ELSE IF commit_fails
             THEN [rows |-> rows, raised |-> "Exception", message |-> "", added |-> 0,
                   session |-> [NewSession EXCEPT !.commit_calls = 1,
                                                  !.rollback_calls = 1]]
             ELSE [rows |-> add_associations(rows, request.property_id, new_user_ids),
                   raised |-> "none", added |-> Len(new_user_ids),
                   message |-> IF Len(request.user_ids) - Len(new_user_ids) > 0
                               THEN "Added {n} users to property '{name}' ({skipped} users were already associated)"
                               ELSE "Added {n} users to property '{name}'",
                   session |-> [NewSession EXCEPT !.commit_calls = 1,
                                                  !.committed = TRUE]]

NoAssocCall ==
    [op |-> "none", request |-> [property_id |-> 0, user_ids |-> <<>>],
     rows_before |-> NoAssociations,
     out |-> [rows |-> NoAssociations, raised |-> "none", message |-> "", added |-> 0,
              session |-> NewSession]]

CallAddUsersToProperty(request, commit_fails) ==
    LET out == AddUsersProperty_add_users_to_property(request, association_rows,
                                                      commit_fails)
    IN  /\ association_rows' = out.rows
        /\ assoc_call' = [op |-> "add_users_to_property", request |-> request,
                          rows_before |-> association_rows, out |-> out]

\* -------------------------------------------- the property service: rooms
\* property.rooms; no constraint ties property_id and room_name
PropertyRooms(id, property_id, room_name) ==
    [id |-> id, property_id |-> property_id, room_name |-> room_name]
RoomNames == {"Kitchen", "Hall"}
RoomSessions == {"s1", "s2"}

\* a request served by a service object with a session of its own: the
\* queries are made (pc "checked"), then the change is committed
IdleRoomRequest ==
    [pc |-> "idle", op |-> "none", property_id |-> 0, room_id |-> 0,
     room_name |-> "", raised |-> "none", message |-> "", session |-> NewSession]

\* PropertyRoomRequest and UpdateRoomRequest; 999 is the id of no property
\* and of no room
RoomRequests ==
    {[IdleRoomRequest EXCEPT !.pc = "begun", !.op = "add_room",
                             !.property_id = p, !.room_name = n] :
         p \in PropertyIds \cup {999}, n \in RoomNames}
    \cup {[IdleRoomRequest EXCEPT !.pc = "begun", !.op = "update_room",
                                  !.room_id = i, !.room_name = n] :
              i \in (1..MaxRooms) \cup {999}, n \in RoomNames}

RoomBegin(s, request) ==
    /\ room_req[s].pc = "idle"
    /\ room_req' = [room_req EXCEPT ![s] = request]
    /\ UNCHANGED rooms

\* the same, no other request being served
RoomBeginAlone(s, request) ==
    /\ \A t \in RoomSessions : room_req[t].pc = "idle"
    /\ RoomBegin(s, request)

\* an add_room that never finds the name taken
add_room_existing_room_unchecked(rows, property_id, room_name) == {}
\* add_room: the rooms of the property that have the name
add_room_existing_room(rows, property_id, room_name) ==
    {r \in rows : r.property_id = property_id /\ r.room_name = room_name}

\* update_room: the other rooms of the property that have the name
update_room_existing_room(rows, room, room_name) ==
    {r \in rows : /\ r.property_id = room.property_id
                  /\ r.room_name = room_name
                  /\ r.id # room.id}

\* except Exception: session.rollback(); raise e
RoomRaise(request, exc) ==
    [request EXCEPT !.pc = "done", !.raised = exc,
                    !.session.rollback_calls = @ + 1]

\* the queries of add_room and update_room, on the committed rows
RoomCheck(s) ==
    /\ room_req[s].pc = "begun"
    /\ LET q == room_req[s]
           found == {r \in rooms : r.id = q.room_id}
       IN  room_req' = [room_req EXCEPT ![s] =
             IF q.op = "add_room"
             THEN IF q.property_id \notin PropertyIds THEN RoomRaise(q, "ValueError")
                  ELSE IF add_room_existing_room(rooms, q.property_id, q.room_name) # {}
                  THEN RoomRaise(q, "ValueError")
                  ELSE [q EXCEPT !.pc = "checked"]
             ELSE IF found = {} THEN RoomRaise(q, "ValueError")
                  ELSE LET room == CHOOSE r \in found : TRUE
                       IN  IF update_room_existing_room(rooms, room, q.room_name) # {}
                           THEN RoomRaise(q, "ValueError")
                           ELSE IF room.room_name = q.room_name
                           THEN [q EXCEPT !.pc = "done",
                                          !.message = "No update needed"]
                           ELSE [q EXCEPT !.pc = "checked"]]
    /\ UNCHANGED rooms

\* session.add, flush and commit of add_room; the assignment and commit of
\* update_room
RoomCommit(s, commit_fails) ==
    /\ room_req[s].pc = "checked"
    /\ LET q == room_req[s]
           tried == [q EXCEPT !.session.commit_calls = @ + 1]
       IN  IF commit_fails
           THEN /\ room_req' = [room_req EXCEPT ![s] = RoomRaise(tried, "Exception")]
                /\ UNCHANGED rooms
           ELSE /\ room_req' = [room_req EXCEPT ![s] =
                       [tried EXCEPT !.pc = "done", !.session.committed = TRUE,
                                     !.message = "successfully"]]
                /\ IF q.op = "add_room"
                   THEN /\ Cardinality(rooms) < MaxRooms
                        /\ rooms' = rooms \cup {PropertyRooms(Cardinality(rooms) + 1,
                                                              q.property_id, q.room_name)}
                   ELSE rooms' = {IF r.id = q.room_id
                                  THEN [r EXCEPT !.room_name = q.room_name] ELSE r :
                                  r \in rooms}

\* the response is sent; the next request gets a new service object
RoomReturn(s) ==
    /\ room_req[s].pc = "done"
    /\ room_req' = [room_req EXCEPT ![s] = IdleRoomRequest]
    /\ UNCHANGED rooms

\* ------------------------------------------ the property service: storage
\* property.storage and the location paths written with it
Storage(id, property_id, room_id, container_id, storage_name) ==
    [id |-> id, property_id |-> property_id, room_id |-> room_id,
     container_id |-> container_id, storage_name |-> storage_name]
LocationPath(property_id, storage_id, location_path) ==
    [property_id |-> property_id, storage_id |-> storage_id,
     location_path |-> location_path]

\* the rooms of the experiment, by id, and the property each belongs to
StorageRoomIds == {1, 2}
StorageRoomName(room_id) == IF room_id = 1 THEN "Kitchen" ELSE "Hall"
StorageNames == {"Wardrobe", " "}

\* the PropertyStorageRequest DTO; property 8 is not in the table
PropertyStorageRequests ==
    [property_id : PropertyIds, room_id : StorageRoomIds,
     container_id : {None} \cup {Some(i) : i \in 1..MaxStorages},
     storage_name : StorageNames]

NoStorageOut ==
    [storages |-> {}, location_paths |-> {}, raised |-> "none", message |-> "",
     session |-> NewSession]

\* a lookup of the parent by its id alone
add_storage_parent_storage_any_room(rows, storage_request) ==
    {s \in rows : Some(s.id) = storage_request.container_id}
\* add_storage: the parent, looked up by id, property and room
add_storage_parent_storage(rows, storage_request) ==
    {s \in rows : /\ Some(s.id) = storage_request.container_id
                  /\ s.property_id = storage_request.property_id
                  /\ s.room_id = storage_request.room_id}

\* AddStorage.add_storage on the two tables
AddStorage_add_storage(storage_request, rows, paths, commit_fails) ==
    LET out == [NoStorageOut EXCEPT !.storages = rows, !.location_paths = paths]
    IN  IF storage_request.container_id = None
        THEN [out EXCEPT !.message = "Sub-storage must have a container_id. Use AddMainStorage for main storage containers."]
        ELSE IF Strip(storage_request.storage_name) = ""
        THEN [out EXCEPT !.message = "Storage name is required"]
        ELSE IF add_storage_parent_storage(rows, storage_request) = {}
        THEN [out EXCEPT !.message = "Container with ID {container_id} not found in room {room_id}"]
        ELSE IF commit_fails
        THEN [out EXCEPT !.message = "Failed to add sub-storage: {e}",
                         !.session.commit_calls = 1, !.session.rollback_calls = 1]
        ELSE [out EXCEPT !.storages = rows \cup
                             {Storage(Cardinality(rows) + 1, storage_request.property_id,
                                      storage_request.room_id,
                                      storage_request.container_id,
                                      Strip(storage_request.storage_name))},
                         !.message = "Sub-storage '{storage_name}' added successfully with ID {id} under container '{parent}'",
                         !.session.commit_calls = 1, !.session.committed = TRUE]

\* AddMainStorage.add_main_storage on the two tables
AddMainStorage_add_main_storage(storage_request, rows, paths, commit_fails) ==
    LET out == [NoStorageOut EXCEPT !.storages = rows, !.location_paths = paths]
        id == Cardinality(rows) + 1
        path == <<PropertyName(storage_request.property_id),
                  StorageRoomName(storage_request.room_id),
                  Strip(storage_request.storage_name)>>
    IN  IF storage_request.container_id # None
        THEN [out EXCEPT !.message = "Main storage should not have a container_id. Use AddStorage for sub-storage."]
        ELSE IF Strip(storage_request.storage_name) = ""
        THEN [out EXCEPT !.message = "Storage name is required"]
        ELSE IF storage_request.property_id \notin PropertyTable
        THEN [out EXCEPT !.raised = "AttributeError"]
        ELSE IF commit_fails
        THEN [out EXCEPT !.message = "Failed to add main storage: {e}",
                         !.session.commit_calls = 1, !.session.rollback_calls = 1,
                         !.session.close_calls = 1]
        ELSE [out EXCEPT !.storages = rows \cup
                             {Storage(id, storage_request.property_id,
                                      storage_request.room_id, None,
                                      Strip(storage_request.storage_name))},
                         !.location_paths = paths \cup
                             {LocationPath(storage_request.property_id, id, path)},
                         !.message = "Main storage '{storage_name}' added successfully with ID {id}",
                         !.session.commit_calls = 1, !.session.committed = TRUE,
                         !.session.close_calls = 1]

\* find_household_item: the location shown for an item kept in a storage,
\* None standing for 'Unknown'
item_location(paths, storage_id, property_id) ==
    LET storage_item == {l \in paths : /\ l.storage_id = storage_id
                                       /\ l.property_id = property_id}
    IN  IF storage_item = {} THEN None
        ELSE Some((CHOOSE l \in storage_item : TRUE).location_path)

NoStorageCall ==
    [op |-> "none",
     request |-> [property_id |-> 0, room_id |-> 0, container_id |-> None,
                  storage_name |-> ""],
     rows_before |-> {}, out |-> NoStorageOut]

CallAddStorage(storage_request, commit_fails) ==
    /\ Cardinality(storages) < MaxStorages
    /\ LET out == AddStorage_add_storage(storage_request, storages, location_paths,
                                         commit_fails)
       IN  /\ storages' = out.storages
           /\ location_paths' = out.location_paths
           /\ storage_call' = [op |-> "add_storage", request |-> storage_request,
                               rows_before |-> storages, out |-> out]

CallAddMainStorage(storage_request, commit_fails) ==
    /\ Cardinality(storages) < MaxStorages
    /\ LET out == AddMainStorage_add_main_storage(storage_request, storages,
                                                  location_paths, commit_fails)
       IN  /\ storages' = out.storages
           /\ location_paths' = out.location_paths
           /\ storage_call' = [op |-> "add_main_storage", request |-> storage_request,
                               rows_before |-> storages, out |-> out]

UsersIdle ==
    /\ users = {} /\ invite_call = NoInviteCall
    /\ user_call = NoUserCall /\ password_set = EmptyDict
AssocIdle == association_rows = NoAssociations /\ assoc_call = NoAssocCall
RoomsIdle == rooms = {} /\ room_req = [s \in RoomSessions |-> IdleRoomRequest]
StorageIdle == storages = {} /\ location_paths = {} /\ storage_call = NoStorageCall
StoreIdle == UsersIdle /\ AssocIdle /\ RoomsIdle /\ StorageIdle
BaseIdle ==
    /\ now = 0
    /\ token = EmptyToken /\ origin = NoOrigin /\ result = NoResult
    /\ req = [r \in Requests |-> IdleRequest]
    /\ auth_context = [r \in Requests |-> None]
    /\ household = {}
    /\ unit = NoCall
    /\ property_association = {} /\ client = NoClient /\ search = NoSearch

\* ------------------------------------------------------- specifications
Init == /\ RequestInit /\ token = EmptyToken /\ origin = NoOrigin /\ result = NoResult
        /\ unit = NoCall
        /\ property_association = {} /\ client = NoClient /\ search = NoSearch
        /\ StoreIdle

Next ==
    /\ UNCHANGED storeVars
    /\ UNCHANGED codecVars
    /\ UNCHANGED unitVars
    /\ UNCHANGED loginVars
    /\ \/ \E r \in Requests, e \in Endpoints, c \in CredentialChoices :
             \E a \in ArgsOf(e) : Arrive(r, e, c, a)
       \/ \E r \in Requests : Gate(r)
       \/ \E r \in Requests : HandlerBegin(r)
       \/ \E r \in Requests : Service(r)
       \/ \E r \in Requests : Complete(r)
       \/ ClockTick

Spec == Init /\ [][Next]_vars

InitCodec ==
    /\ CodecInit
    /\ req = [r \in Requests |-> IdleRequest]
    /\ auth_context = [r \in Requests |-> None]
    /\ household = {}
    /\ unit = NoCall
    /\ property_association = {} /\ client = NoClient /\ search = NoSearch
    /\ StoreIdle

NextCodec ==
    /\ UNCHANGED storeVars
    /\ UNCHANGED requestVars
    /\ UNCHANGED unitVars
    /\ UNCHANGED loginVars
    /\ \/ \E tp \in TokenPayloads : HelperGenerate(tp)
       \/ \E proc \in Processors, payload \in RawPayloads : ProcessorGenerate(proc, payload)
       \/ \E how \in {"mac", "pad"} : AlterSignature(how)
       \/ \E tok \in ForgedTokens : PresentForged(tok)
       \/ \E proc \in Decoders : Decode(proc)
       \/ Tick

SpecCodec == InitCodec /\ [][NextCodec]_vars

\* the requests of the routes that write the request context: logins and
\* searches, served concurrently
NextContext ==
    /\ UNCHANGED storeVars
    /\ UNCHANGED codecVars
    /\ UNCHANGED unitVars
    /\ UNCHANGED loginVars
    /\ \/ \E r \in Requests, e \in ContextEndpoints, c \in CredentialChoices :
             \E a \in ArgsOf(e) : Arrive(r, e, c, a)
       \/ \E r \in Requests : Gate(r)
       \/ \E r \in Requests : HandlerBegin(r)
       \/ \E r \in Requests : Service(r)
       \/ \E r \in Requests : Complete(r)
       \/ ClockTick

SpecContext == Init /\ [][NextContext]_vars

\* the services called directly, on any content of the household table
InitUnit ==
    /\ now = 0
    /\ token = EmptyToken /\ origin = NoOrigin /\ result = NoResult
    /\ req = [r \in Requests |-> IdleRequest]
    /\ auth_context = [r \in Requests |-> None]
    /\ household \in SUBSET UnitRows
    /\ unit = NoCall
    /\ property_association = {} /\ client = NoClient /\ search = NoSearch
    /\ StoreIdle

NextUnit ==
    /\ UNCHANGED storeVars
    /\ UNCHANGED <<now, token, origin, result, req, auth_context>>
    /\ UNCHANGED loginVars
    /\ \/ \E tp \in UnitContexts, t \in UnitSearchTerms, f \in FindFaults : CallFind(tp, t, f)
       \/ \E i \in UnitItemIds, f \in RemoveFaults : CallRemove(i, f)
       \/ \E ps \in UnitClaimLists, pid \in PropertyIds,
             lv \in {None} \cup {Some(l) : l \in AccessLevels} :
             CallHasPropertyAccess(ps, pid, lv)

SpecUnit == InitUnit /\ [][NextUnit]_vars

\* one user who logs in and searches while the associations change
InitLogin ==
    /\ now = 0
    /\ token = EmptyToken /\ origin = NoOrigin /\ result = NoResult
    /\ req = [r \in Requests |-> IdleRequest]
    /\ auth_context = [r \in Requests |-> None]
    /\ household = UnitRows
    /\ unit = NoCall
    /\ property_association \in SUBSET PropertyIds
    /\ client = NoClient
    /\ search = NoSearch
    /\ StoreIdle

NextLogin ==
    /\ UNCHANGED storeVars
    /\ UNCHANGED <<token, origin, result, req, auth_context, unit>>
    /\ \/ \E pid \in PropertyIds : Associate(pid)
       \/ \E pid \in PropertyIds : Dissociate(pid)
       \/ Login
       \/ \E t \in SearchTerms : Search(t)
       \/ LoginTick

SpecLogin == InitLogin /\ [][NextLogin]_vars

\* the same user, the request of the property client ending in any way
NextLoginFetch ==
    /\ UNCHANGED storeVars
    /\ UNCHANGED <<token, origin, result, req, auth_context, unit>>
    /\ \/ \E pid \in PropertyIds : Associate(pid)
       \/ \E pid \in PropertyIds : Dissociate(pid)
       \/ \E outcome \in FetchOutcomes : LoginFetch(outcome)
       \/ \E t \in SearchTerms : Search(t)
       \/ LoginTick

SpecLoginFetch == InitLogin /\ [][NextLoginFetch]_vars

\* send_invite called on any content of the users table
InitInvite ==
    /\ BaseIdle
    /\ users \in InviteTables
    /\ invite_call = NoInviteCall
    /\ user_call = NoUserCall /\ password_set = EmptyDict
    /\ AssocIdle /\ RoomsIdle /\ StorageIdle

NextInvite ==
    /\ UNCHANGED baseVars
    /\ UNCHANGED assocVars
    /\ UNCHANGED roomVars
    /\ UNCHANGED storageVars
    /\ UNCHANGED <<user_call, password_set>>
    /\ \/ \E request \in InviteRequests, rollback_fails \in BOOLEAN,
             close_fails \in BOOLEAN, rnd \in generate_salt :
             \E faults \in InviteFaults(Len(request)) :
                CallSendInvite(request, faults, rollback_fails, close_fails, rnd)
       \/ NewInviteService

SpecInvite == InitInvite /\ [][NextInvite]_vars

\* add_users_to_property called again and again, the table empty at first
InitAssoc ==
    /\ BaseIdle
    /\ UsersIdle
    /\ AssocIdle
    /\ RoomsIdle
    /\ StorageIdle

NextAssoc ==
    /\ UNCHANGED baseVars
    /\ UNCHANGED userVars
    /\ UNCHANGED roomVars
    /\ UNCHANGED storageVars
    /\ \E request \in AddUsersPropertyRequests, commit_fails \in BOOLEAN :
          CallAddUsersToProperty(request, commit_fails)

SpecAssoc == InitAssoc /\ [][NextAssoc]_vars

\* add_room and update_room requests served one after the other
InitRooms == BaseIdle /\ StoreIdle

NextRoomsSeq ==
    /\ UNCHANGED baseVars
    /\ UNCHANGED userVars
    /\ UNCHANGED assocVars
    /\ UNCHANGED storageVars
    /\ \/ \E s \in RoomSessions, request \in RoomRequests : RoomBeginAlone(s, request)
       \/ \E s \in RoomSessions : RoomCheck(s)
       \/ \E s \in RoomSessions, commit_fails \in BOOLEAN : RoomCommit(s, commit_fails)
       \/ \E s \in RoomSessions : RoomReturn(s)

SpecRoomsSeq == InitRooms /\ [][NextRoomsSeq]_vars

\* the same requests served by workers of their own, in any interleaving
NextRooms ==
    /\ UNCHANGED baseVars
    /\ UNCHANGED userVars
    /\ UNCHANGED assocVars
    /\ UNCHANGED storageVars
    /\ \/ \E s \in RoomSessions, request \in RoomRequests : RoomBegin(s, request)
       \/ \E s \in RoomSessions : RoomCheck(s)
       \/ \E s \in RoomSessions, commit_fails \in BOOLEAN : RoomCommit(s, commit_fails)
       \/ \E s \in RoomSessions : RoomReturn(s)

SpecRooms == InitRooms /\ [][NextRooms]_vars

\* add_main_storage and add_storage called again and again, the tables
\* empty at first
InitStorage == BaseIdle /\ StoreIdle

NextStorage ==
    /\ UNCHANGED baseVars
    /\ UNCHANGED userVars
    /\ UNCHANGED assocVars
    /\ UNCHANGED roomVars
    /\ \/ \E storage_request \in PropertyStorageRequests, commit_fails \in BOOLEAN :
             CallAddMainStorage(storage_request, commit_fails)
       \/ \E storage_request \in PropertyStorageRequests, commit_fails \in BOOLEAN :
             CallAddStorage(storage_request, commit_fails)

SpecStorage == InitStorage /\ [][NextStorage]_vars

\* users register, change their passwords, complete their registration
\* and authenticate, the users table empty at first
InitUsers == BaseIdle /\ StoreIdle

NextUsers ==
    /\ UNCHANGED baseVars
    /\ UNCHANGED assocVars
    /\ UNCHANGED roomVars
    /\ UNCHANGED storageVars
    /\ UNCHANGED invite_call
    /\ \/ \E request \in RegisterUserRequests, salt \in generate_salt,
             commit_fails \in BOOLEAN : CallRegisterUser(request, salt, commit_fails)
       \/ \E email \in Emails, password \in Passwords : CallAuthenticate(email, password)
       \/ \E request \in ChangePasswordRequests, salt \in generate_salt,
             commit_fails \in BOOLEAN : CallChangePassword(request, salt, commit_fails)
       \/ \E request \in CompleteRegistrationRequests, salt \in generate_salt,
             commit_fails \in BOOLEAN :
             CallCompleteRegistration(request, salt, commit_fails)

SpecUsers == InitUsers /\ [][NextUsers]_vars

\* ------------------------------------------------- properties: the routes
\* what a client's token is, by where it came from
SignedByService(tok) ==
    /\ tok.form = "jws"
    /\ tok.signature.mac = HMAC(ServiceProcessor.secret_key, tok.header, tok.payload)
ExpiredAt(tok, t) ==
    SignedByService(tok) /\ "exp" \in DOMAIN tok.payload
                         /\ tok.payload["exp"] * TicksPerSecond <= t
LeavesGate(r) == req[r].pc = "gate" /\ req'[r].pc # "gate"

\* C1: on an endpoint gated by jwt_helper.verify_token the handler is
\* entered only by the step of the gate, and only when the request carried
\* a token that decode_token decoded without error and that validated into
\* the TokenPayload handed to the handler; and the handler body runs only
\* after that.  A request without a token, with an invalid one or with an
\* expired one never reaches the handler.
C1_HandlerOnlyAfterGate ==
    [][\A r \in Requests :
          GateOf(req'[r].endpoint) = "jwt_helper" =>
             /\ (req'[r].pc = "handler" /\ req[r].pc # "handler") =>
                   /\ req[r].pc = "gate"
                   /\ req[r].credentials # None
                   /\ LET d == decode_token(ServiceProcessor, ValueOf(req[r].credentials), now)
                      IN  /\ d.raised = "none"
                          /\ "error" \notin DOMAIN d.value
                          /\ TokenPayload(d.value).ok
                          /\ req'[r].auth_token = TokenPayload(d.value).value
             /\ (req'[r].handler_ran /\ ~req[r].handler_ran) => req[r].pc = "handler"
             /\ (req'[r].pc = "service" /\ req[r].pc # "service") => req[r].pc = "handler"]_vars

\* a gated handler is running for a request that presented a token
C1_Witness ==
    \E r \in Requests : /\ req[r].pc = "service" /\ req[r].handler_ran
                        /\ GateOf(req[r].endpoint) = "jwt_helper"
                        /\ req[r].credentials = Some(AliceToken)

\* C2: every item returned by FindItem.find_household_item belongs to a
\* property of the claims installed in the request context: its property_id
\* is in get_property_ids() of those claims.
C2_SearchScopedToClaims ==
    \A r \in Requests :
        (req[r].pc = "done" /\ req[r].endpoint = "find_household_item" /\ req[r].read) =>
            \A it \in req[r].response.items :
                /\ auth_context[r] # None
                /\ it.property_id \in SeqToSet(get_property_ids(ValueOf(auth_context[r])))

\* a search returned an item of a property of the caller's claims
C2_Witness ==
    \E r \in Requests :
        /\ req[r].pc = "done" /\ req[r].endpoint = "find_household_item"
        /\ req[r].response.items # {}

\* C3: with requests running concurrently, each having called set_token
\* with its own claims, what a request reads back with get_token is what
\* that same request set, under every interleaving.
C3_ContextIsolation ==
    \A r \in Requests :
        (req[r].endpoint = "find_household_item" /\ req[r].read) =>
            req[r].seen = Some(req[r].auth_token)

\* two searches with distinct claims overlap: one has read its context
\* after the other set its own
C3_Witness ==
    \E r1, r2 \in Requests :
        /\ r1 # r2
        /\ req[r1].endpoint = "find_household_item" /\ req[r1].read
        /\ req[r2].endpoint = "find_household_item" /\ req[r2].pc \in {"service", "done"}
        /\ req[r2].handler_ran
        /\ req[r1].auth_token # req[r2].auth_token

\* C4: for every request that passed the auth gate of a gated endpoint,
\* RequestContext.get_token() read during the handler or its service
\* returns exactly the claims decoded from the request's token.
C4_ContextHoldsClaims ==
    \A r \in Requests :
        (req[r].read /\ GateOf(req[r].endpoint) = "jwt_helper") =>
            req[r].seen = Some(req[r].auth_token)

\* C6: on every gated endpoint, the storage routes included, an expired
\* token is rejected with 401 and the detail of expiry, an invalid token
\* with 401 and the detail of invalidity, two different details.
C6_ExpiredAndInvalidDetails ==
    [][\A r \in Requests :
          (LeavesGate(r) /\ req[r].credentials # None) =>
              LET tok == ValueOf(req[r].credentials)
              IN  /\ ExpiredAt(tok, now) =>
                        /\ req'[r].pc = "done"
                        /\ req'[r].response.status = 401
                        /\ req'[r].response.detail = "Token has expired"
                  /\ ~SignedByService(tok) =>
                        /\ req'[r].pc = "done"
                        /\ req'[r].response.status = 401
                        /\ req'[r].response.detail = "Invalid token"]_vars

\* C7: on every gated endpoint, the storage routes included, a correctly
\* signed, unexpired token without user_id is rejected with 401 and no
\* handler runs with an absent user_id.
C7_MissingUserIdRejected ==
    [][\A r \in Requests :
          (LeavesGate(r) /\ req[r].credentials # None) =>
              LET tok == ValueOf(req[r].credentials)
              IN  (SignedByService(tok) /\ ~ExpiredAt(tok, now)
                                        /\ "user_id" \notin DOMAIN tok.payload) =>
                       /\ req'[r].pc = "done"
                       /\ req'[r].response.status = 401]_vars

\* C17: within one request the context is written at most once: on every
\* path of every route handler set_token is called at most one time, every
\* change of the request's context is such a call, and from that write to
\* the end of the request the context, and so every read of it, keeps the
\* claims written.
C17_ContextWrittenOnce ==
    [][\A r \in Requests :
          /\ req'[r].writes <= 1
          /\ (auth_context'[r] # auth_context[r] /\ auth_context'[r] # None) =>
                 req'[r].writes = req[r].writes + 1
          /\ (auth_context[r] # None /\ req'[r].pc # "idle") =>
                 auth_context'[r] = auth_context[r]
          /\ (req'[r].read /\ ~req[r].read /\ req[r].writes = 1) =>
                 req'[r].seen = auth_context[r]]_vars

\* a search read its context after writing it once, while a login that
\* wrote its own once is still being answered
C17_Witness ==
    \E r1, r2 \in Requests :
        /\ req[r1].endpoint = "find_household_item" /\ req[r1].pc = "done"
        /\ req[r1].writes = 1 /\ req[r1].read /\ req[r1].seen = auth_context[r1]
        /\ auth_context[r1] # None
        /\ req[r2].endpoint = "authenticate_user" /\ req[r2].pc = "done"
        /\ req[r2].writes = 1 /\ auth_context[r2] # None

\* C14: no gated read endpoint returns data of a property outside the
\* caller's claimed property set: get_property_by_id (as the other reads by
\* property, room or storage id) answers with data only when the owning
\* property is in the claims of the caller's token.
C14_ReadsScopedToClaims ==
    \A r \in Requests :
        (/\ req[r].pc = "done" /\ req[r].endpoint = "get_property_by_id"
         /\ req[r].handler_ran /\ req[r].response.status = 200) =>
            req[r].arg.property_id \in SeqToSet(get_property_ids(req[r].auth_token))

\* --------------------------------------------------- properties: the codec
\* the token on the wire, by where it came from, against the processor that
\* decoded it
Produced == origin.kind # "none"
SignatureVerifies ==
    Produced /\ ~origin.macAltered /\ origin.proc.secret_key = result.proc.secret_key
IssuerMatches == Produced /\ origin.proc.issuer = result.proc.issuer
AudienceMatches == Produced /\ origin.proc.audience = result.proc.audience
ExpPassed == "exp" \in DOMAIN token.payload
             /\ result.at > token.payload["exp"] * TicksPerSecond
Decoded == result.decoded.value
DecodedPayload == result.decoded.raised = "none" /\ "error" \notin DOMAIN Decoded

\* C5: decode_token never raises and returns the payload, the Expired
\* error or the Invalid error.  A token whose signature, issuer and
\* audience verify and whose exp has passed yields Expired; a token whose
\* signature does not verify yields Invalid, whatever its exp.
C5_DecodeOutcomes ==
    result.done =>
        /\ result.decoded.raised = "none"
        /\ Decoded \in {token.payload, ExpiredError, InvalidError}
        /\ (SignatureVerifies /\ IssuerMatches /\ AudienceMatches /\ ExpPassed)
               => Decoded = ExpiredError
        /\ ~SignatureVerifies => Decoded = InvalidError

\* a genuine token of the decoding processor is decoded after its exp
C5_Witness ==
    /\ result.done /\ SignatureVerifies /\ IssuerMatches /\ AudienceMatches /\ ExpPassed
    /\ Decoded = ExpiredError

\* C8: for every valid TokenPayload C, every optional field present,
\* absent or None, JwtHelper.generate_token then verify_token before expiry
\* gives a TokenPayload equal to C field by field.
C8_RoundTrip ==
    (/\ result.done /\ origin.kind = "helper"
     /\ ~origin.macAltered /\ ~origin.padAltered
     /\ result.proc = ServiceProcessor
     /\ result.at < token.payload["exp"] * TicksPerSecond) =>
        /\ ~result.verified.rejected
        /\ result.verified.auth_token = origin.payload

\* C8 amended: the round trip gives back C field by field, except that an
\* is_admin of None comes back as False, the default of the field.
C8_RoundTripUpToDefault ==
    (/\ result.done /\ origin.kind = "helper"
     /\ ~origin.macAltered /\ ~origin.padAltered
     /\ result.proc = ServiceProcessor
     /\ result.at < token.payload["exp"] * TicksPerSecond) =>
        /\ ~result.verified.rejected
        /\ result.verified.auth_token =
              [origin.payload EXCEPT !.is_admin = IF @ = None THEN Some(FALSE) ELSE @]

\* a payload with an absent field and an empty property list went round
C8_Witness ==
    /\ result.done /\ origin.kind = "helper" /\ result.proc = ServiceProcessor
    /\ ~origin.macAltered /\ ~origin.padAltered
    /\ result.at < token.payload["exp"] * TicksPerSecond
    /\ origin.payload.username = None
    /\ origin.payload.properties = Some(<<>>)
    /\ result.verified.auth_token = origin.payload

\* C9: a token generated with expiry 0 or less, decoded by a processor of
\* the same secret, issuer and audience after a positive delay, yields the
\* Expired error; and no decode later than a token's exp returns the payload.
C9_Expiry ==
    result.done =>
        /\ (/\ Produced /\ origin.proc.expiry_milli_seconds <= 0
            /\ ~origin.macAltered
            /\ origin.proc.secret_key = result.proc.secret_key
            /\ IssuerMatches /\ AudienceMatches
            /\ result.at > origin.at) => Decoded = ExpiredError
        /\ ExpPassed => ~DecodedPayload

\* a token of expiry 0 was decoded one tick or more after it was generated
C9_Witness ==
    /\ result.done /\ Produced /\ origin.proc.expiry_milli_seconds = 0
    /\ SignatureVerifies /\ IssuerMatches /\ AudienceMatches
    /\ result.at > origin.at
    /\ Decoded = ExpiredError

\* C10 as claimed: a token of another secret, issuer or audience, or one
\* whose signature segment was altered, always yields the Invalid error.
C10_AlwaysInvalid ==
    (/\ result.done /\ Produced
     /\ \/ origin.proc.secret_key # result.proc.secret_key
        \/ ~IssuerMatches
        \/ ~AudienceMatches
        \/ origin.macAltered
        \/ origin.padAltered) => Decoded = InvalidError

\* C10 amended: decode_token returns the payload only for a token whose
\* signature bytes are the MAC under the decoder's secret and that carries
\* the decoder's issuer and audience.  Another secret or altered signature
\* bytes always yield Invalid.  Another issuer or audience never decodes:
\* it yields Invalid, or Expired when the signature verifies and exp has
\* been reached, exp being checked first.
C10_NeverDecodesForeign ==
    result.done =>
        /\ DecodedPayload =>
              SignatureVerifies /\ IssuerMatches /\ AudienceMatches
        /\ (Produced /\ (origin.proc.secret_key # result.proc.secret_key
                         \/ origin.macAltered)) => Decoded = InvalidError
        /\ (Produced /\ (~IssuerMatches \/ ~AudienceMatches)) =>
              /\ Decoded \in {InvalidError, ExpiredError}
              /\ Decoded = ExpiredError <=>
                    (SignatureVerifies
                     /\ result.at >= token.payload["exp"] * TicksPerSecond)

\* an unexpired token of another issuer, correctly signed, was refused
C10_Witness ==
    /\ result.done /\ SignatureVerifies /\ ~IssuerMatches /\ AudienceMatches
    /\ result.at < token.payload["exp"] * TicksPerSecond
    /\ Decoded = InvalidError

\* C16: token encoding has no side effects: after generate_token(payload)
\* returns, the caller's payload has the keys and values it had before the
\* call; no iss, aud or exp is added and an iss or aud it held is kept.
C16_PayloadUntouched ==
    origin.kind = "processor" => origin.caller_payload = origin.payload

Malformed(tok) == tok.form # "jws"

\* C11: for every input string, the empty string and the strings that are
\* not three well-formed segments included, decode_token does not raise and
\* returns the one Invalid error value, the same for every malformed input.
C11_MalformedIsInvalid ==
    (result.done /\ Malformed(token)) =>
        /\ result.decoded.raised = "none"
        /\ Decoded = InvalidError
        /\ DOMAIN Decoded = {"error"}

\* the empty string was decoded
C11_Witness ==
    /\ result.done /\ token = EmptyToken
    /\ result.decoded = [raised |-> "none", value |-> InvalidError]

ScopedMatches(ids, search_term) ==
    IF Strip(search_term) = "" THEN {}
    ELSE {it \in household : /\ it.property_id \in ids
                             /\ WordsOf(Strip(search_term)) \subseteq WordsOf(it.general_name)}

\* C13: every search made with a token before it expires is scoped to
\* exactly the property ids captured at the login that issued the token,
\* whatever associations were added or removed since; a change shows only
\* in the searches made with the token of a later login.
C13_ClaimsAreASnapshot ==
    search.done =>
        /\ search.at < ValueOf(client.token).payload["exp"] * TicksPerSecond
               => search.status = 200
        /\ search.status = 200 =>
               search.items = ScopedMatches(client.login_assoc, search.search_term)

\* a search made after an association was removed and another added still
\* returned the item of the removed property and not that of the added one
C13_Witness ==
    /\ search.done /\ search.status = 200
    /\ client.login_assoc = {7} /\ search.assoc_now = {8}
    /\ \E it \in search.items : it.property_id = 7
    /\ \A it \in search.items : it.property_id # 8

\* C15: has_property_access returns true exactly when the claims contain an
\* entry for property_id whose access level ranks at or above the required
\* level (member when none is given) under guest < member < owner, and
\* false when properties is empty or the property is absent; also when the
\* list holds several entries for the same property_id.
C15_AccessIffSomeEntrySuffices ==
    unit.op = "has_property_access" =>
        LET tp == ValueOf(unit.token_payload)
            props == IF tp.properties = None THEN <<>> ELSE ValueOf(tp.properties)
            required == IF unit.required_level = None THEN "member"
                        ELSE ValueOf(unit.required_level)
        IN  unit.is_success <=>
                \E i \in 1..Len(props) :
                    /\ props[i].property_id = unit.property_id
                    /\ AccessRank(props[i].access_level) >= AccessRank(required)

\* C19: find_household_item closes its database session exactly once on
\* every return path: successful search, no accessible properties, empty or
\* whitespace-only search term, database error, value error and unexpected
\* error.
C19_SessionClosedOnce ==
    unit.op = "find_household_item" => unit.session.close_calls = 1

\* whether the item to remove was in the table, and whether the call
\* reached its fault
ItemExisted == \E it \in unit.rows_before : it.id = unit.item_id
FaultStruck ==
    \/ unit.fault.at = "query"
    \/ unit.fault.at \in {"delete", "commit"} /\ ItemExisted

\* C20: remove_item never raises.  It returns is_success = True only when
\* the item existed and its deletion was committed; for an item that does
\* not exist it returns False with no delete and no commit; when the query,
\* the delete or the commit fails it returns False after attempting a
\* rollback, also when the rollback fails; and on every path the session is
\* closed exactly once.
C20_RemoveOutcomes ==
    unit.op = "remove_item" =>
        /\ unit.raised = "none"
        /\ unit.is_success =>
               /\ ItemExisted /\ unit.session.committed
               /\ household = {it \in unit.rows_before : it.id # unit.item_id}
        /\ (~ItemExisted /\ unit.fault.at # "query") =>
               /\ ~unit.is_success
               /\ unit.session.delete_calls = 0 /\ unit.session.commit_calls = 0
        /\ FaultStruck =>
               /\ ~unit.is_success /\ unit.session.rollback_calls = 1
               /\ ~unit.session.committed
        /\ ~unit.is_success => household = unit.rows_before
        /\ unit.session.close_calls = 1

\* the commit of the deletion of an existing item failed, and then the
\* rollback and the close failed too
C20_Witness ==
    /\ unit.op = "remove_item" /\ ItemExisted
    /\ unit.fault.at = "commit" /\ unit.fault.rollback_fails /\ unit.fault.close_fails
    /\ ~unit.is_success /\ unit.raised = "none"
    /\ unit.session.rollback_calls = 1 /\ unit.session.close_calls = 1

\* ------------------------------------------- properties: the user service
InviteReturned == invite_call.op = "send_invite" /\ invite_call.out.raised = "none"
EmailsOf(rows) == {u.email : u \in rows}
InSeq(x, seq) == \E i \in 1..Len(seq) : seq[i] = x

\* C21 as stated: every call of send_invite processes every user of the
\* list; successes plus failures is the length of the list, the commits
\* are the successes and the rollbacks the failures, what was committed
\* stays, and the summary holds both counts and the failed addresses
C21_IndependentTransactions ==
    invite_call.op = "send_invite" =>
        LET o == invite_call.out
        IN  /\ o.processed = Len(invite_call.request)
            /\ o.successful_invites + o.failed_invites = Len(invite_call.request)
            /\ Len(o.committed) = o.successful_invites
            /\ o.session.rollback_calls = o.failed_invites
            /\ invite_call.users_before \subseteq users
            /\ \A i \in 1..Len(o.committed) : o.committed[i] \in EmailsOf(users)
            /\ o.successful_invites > 0 =>
                   o.message.successful_invites = Some(o.successful_invites)
            /\ o.failed_invites > 0 =>
                   /\ o.message.failed_invites = Some(o.failed_invites)
                   /\ o.message.failed_users = Some(o.failed_users)

\* C21, amended: what was committed stays whatever happens later; a call
\* that returns has processed every user, successes plus failures is the
\* length of the list, one commit succeeded per success and one rollback
\* was made per failure, a user fails exactly when an exception struck or
\* the address is already in the table, and the summary holds the count of
\* successes alone when none failed, the count of failures alone when none
\* succeeded, and both counts with the failed addresses otherwise; a call
\* raises only when a rollback or the close of the session raised
C21_InvitesOfAReturnedCall ==
    invite_call.op = "send_invite" =>
        LET o == invite_call.out
            request == invite_call.request
            Struck(i) == invite_call.faults[i] # "none"
            Taken(i) == \/ request[i].email \in EmailsOf(invite_call.users_before)
                        \/ \E j \in 1..(i - 1) : /\ request[j].email = request[i].email
                                                 /\ ~Struck(j)
        IN  /\ invite_call.users_before \subseteq users
            /\ \A i \in 1..Len(o.committed) : o.committed[i] \in EmailsOf(users)
            /\ Len(o.committed) = o.successful_invites
            /\ Cardinality(users) = Cardinality(invite_call.users_before) + o.successful_invites
            /\ o.raised # "none" =>
                   /\ invite_call.rollback_fails \/ invite_call.close_fails
                   /\ o.message = NoMessage
            /\ o.raised = "none" =>
                   /\ o.processed = Len(request)
                   /\ o.successful_invites + o.failed_invites = Len(request)
                   /\ o.session.rollback_calls = o.failed_invites
                   /\ o.session.close_calls = 1
                   /\ Len(o.failed_users) = o.failed_invites
                   /\ \A i \in 1..Len(request) :
                         IF Struck(i) \/ Taken(i)
                         THEN InSeq(request[i].email, o.failed_users)
                         ELSE InSeq(request[i].email, o.committed)
                   /\ o.failed_invites = 0 =>
                         /\ o.message.successful_invites = Some(o.successful_invites)
                         /\ o.message.failed_invites = None
                         /\ o.message.failed_users = None
                   /\ (o.failed_invites > 0 /\ o.successful_invites = 0) =>
                         /\ o.message.successful_invites = None
                         /\ o.message.failed_invites = Some(o.failed_invites)
                         /\ o.message.failed_users = None
                   /\ (o.failed_invites > 0 /\ o.successful_invites > 0) =>
                         /\ o.message.successful_invites = Some(o.successful_invites)
                         /\ o.message.failed_invites = Some(o.failed_invites)
                         /\ o.message.failed_users = Some(o.failed_users)

\* a returned call whose first user failed and whose second was committed
C21_Witness ==
    /\ InviteReturned
    /\ Len(invite_call.request) = 2
    /\ invite_call.faults[1] # "none"
    /\ invite_call.out.failed_users = <<invite_call.request[1].email>>
    /\ invite_call.out.committed = <<invite_call.request[2].email>>

\* ----------------------------------- properties: the property associations
\* C22: no (property_id, user_id) pair is associated more than once;
\* a call adds rows only for users not yet associated, and when none
\* remains nothing is added and nothing is committed
C22_PairAssociatedOnce ==
    /\ \A p \in PropertyIds, u \in UserIds : RowsOf(association_rows, p, u) <= 1
    /\ assoc_call.op = "add_users_to_property" =>
          /\ \A p \in PropertyIds, u \in UserIds :
                /\ RowsOf(association_rows, p, u) >= RowsOf(assoc_call.rows_before, p, u)
                /\ RowsOf(assoc_call.rows_before, p, u) > 0 =>
                      RowsOf(association_rows, p, u) = RowsOf(assoc_call.rows_before, p, u)
          /\ assoc_call.out.added = 0 =>
                /\ association_rows = assoc_call.rows_before
                /\ ~assoc_call.out.session.committed

\* ------------------------------------------------- properties: the rooms
RoomNamesUnique ==
    \A a, b \in rooms :
        (a.property_id = b.property_id /\ a.room_name = b.room_name) => a = b
NameTaken(q) ==
    \/ /\ q.op = "add_room"
       /\ \E r \in rooms : r.property_id = q.property_id /\ r.room_name = q.room_name
    \/ /\ q.op = "update_room"
       /\ \E r, o \in rooms : /\ r.id = q.room_id /\ o.id # r.id
                              /\ o.property_id = r.property_id
                              /\ o.room_name = q.room_name

\* C23: requests served one after the other keep the room names of a
\* property distinct; a request whose name is taken by a room (another
\* room, for update_room) of the property ends with a ValueError, one
\* rollback and no commit, and the table is as it was
C23_SequentialRoomNamesUnique ==
    [][/\ RoomNamesUnique => RoomNamesUnique'
       /\ \A s \in RoomSessions :
             (room_req[s].pc = "begun" /\ NameTaken(room_req[s])) =>
                 \/ room_req'[s] = room_req[s]
                 \/ /\ room_req'[s].pc = "done"
                    /\ room_req'[s].raised = "ValueError"
                    /\ room_req'[s].session.rollback_calls = 1
                    /\ room_req'[s].session.commit_calls = 0
                    /\ rooms' = rooms]_vars

\* an update_room to the name of another room of the property was refused
C23_Witness ==
    \E s \in RoomSessions :
        /\ room_req[s].pc = "done" /\ room_req[s].op = "update_room"
        /\ room_req[s].raised = "ValueError"
        /\ NameTaken(room_req[s])
        /\ RoomNamesUnique
        /\ Cardinality(rooms) >= 2

\* C29: in every interleaving of add_room and update_room requests served
\* in sessions of their own, no two rooms of a property have the same name
C29_ConcurrentRoomNamesUnique == RoomNamesUnique

\* ------------------------------------------------ properties: the storage
RECURSIVE ReachesMainStorage(_, _)
ReachesMainStorage(s, steps) ==
    IF s.container_id = None THEN TRUE
    ELSE IF steps = 0 THEN FALSE
    ELSE \E p \in storages : /\ Some(p.id) = s.container_id
                             /\ ReachesMainStorage(p, steps - 1)

\* C24: every storage with a container refers to a storage of the same
\* property and room, the container links lead to a main storage in
\* finitely many steps, a storage added by add_main_storage has no
\* container, and add_storage with a container that is not in that property
\* and room adds nothing
C24_StorageForest ==
    /\ \A s \in storages :
          /\ s.container_id # None =>
                \E p \in storages : /\ Some(p.id) = s.container_id
                                    /\ p.property_id = s.property_id
                                    /\ p.room_id = s.room_id
          /\ ReachesMainStorage(s, Cardinality(storages))
    /\ storage_call.op = "add_main_storage" =>
          \A s \in storages \ storage_call.rows_before : s.container_id = None
    /\ (/\ storage_call.op = "add_storage"
        /\ ~\E p \in storage_call.rows_before :
               /\ Some(p.id) = storage_call.request.container_id
               /\ p.property_id = storage_call.request.property_id
               /\ p.room_id = storage_call.request.room_id)
          => storages = storage_call.rows_before

\* a sub-storage was added inside a sub-storage
C24_Witness ==
    /\ storage_call.op = "add_storage"
    /\ \E s \in storages \ storage_call.rows_before :
          \E p \in storages : /\ Some(p.id) = s.container_id
                              /\ p.container_id # None

\* C25: every storage in the table has a location path for its
\* (property_id, storage_id), so an item kept in it is shown with a location
\* and not with 'Unknown'
C25_EveryStorageHasLocationPath ==
    \A s \in storages : item_location(location_paths, s.id, s.property_id) # None

\* ------------------------------------------- properties: reads by an id
\* C26: a get-by-id request that passed the gate and names a resource
\* that does not exist is answered 404 with the detail 'Property not
\* found', never 500
C26_MissingResourceIs404 ==
    \A r \in Requests :
        (/\ req[r].pc = "done" /\ req[r].endpoint = "get_property_by_id"
         /\ req[r].handler_ran
         /\ req[r].arg.property_id \notin PropertyTable)
            => /\ req[r].response.status = 404
               /\ req[r].response.detail = "Property not found"

C28_CompleteRegistrationCommits ==
    (/\ user_call.op = "complete_registration"
     /\ user_call.request.user_id \in DOMAIN user_call.password_before
     /\ user_call.password_before[user_call.request.user_id]
            = user_call.request.old_password
     /\ ~\E u \in user_call.users_before :
            u.id # user_call.request.user_id /\ u.email = user_call.request.email)
        => \/ user_call.out.raised = "Exception"
           \/ /\ user_call.out.raised = "none"
              /\ user_call.out.message = "Registration completed successfully"
              /\ user_call.out.session.committed
              /\ \E u \in users :
                    /\ u.id = user_call.request.user_id
                    /\ u.first_name = user_call.request.first_name
                    /\ u.email = user_call.request.email
                    /\ verify_password(u.password_hash,
                                       PyStr(user_call.request.new_password),
                                       u.salt).value

\* ------------------------------------- properties: login and the fetch
LoginClaims ==
    ResolveDependencies("find_household_item", client.token, client.at).auth_token
FetchFailed == client.fetch \in {"request_error", "status_error", "malformed"}

\* C30 as stated: a login is answered with a token whatever the property
\* service does; when the fetch failed (request error, error status,
\* malformed body) the properties claim is the empty list and every search
\* with the token returns no items, and when it did not fail the property
\* ids of the token are the properties associated with the user at login
C30_LoginSurvivesFetch ==
    client.token # None =>
        /\ FetchFailed =>
              /\ LoginClaims.properties = Some(<<>>)
              /\ (search.done /\ search.status = 200) => search.items = {}
        /\ ~FetchFailed =>
              SeqToSet(get_property_ids(LoginClaims)) = client.login_assoc

\* C30, amended: the properties claim is the empty list, and every search
\* with the token returns no items, also when the property service answers
\* while its own query failed; the property ids of the token are the
\* properties associated at login when the property service answered with
\* the result of its query
C30_LoginSurvivesFetchAndQueryFailure ==
    client.token # None =>
        /\ (FetchFailed \/ client.fetch = "query_error") =>
              /\ LoginClaims.properties = Some(<<>>)
              /\ (search.done /\ search.status = 200) => search.items = {}
        /\ client.fetch = "ok" =>
              SeqToSet(get_property_ids(LoginClaims)) = client.login_assoc

\* after a login whose fetch failed, a search for a word of an item of an
\* associated property returned nothing
C30_Witness ==
    /\ client.token # None /\ FetchFailed
    /\ client.login_assoc # {}
    /\ search.done /\ search.status = 200 /\ search.items = {}
    /\ ScopedMatches(client.login_assoc, search.search_term) # {}

====
